---- MODULE Spec2Model ----
(***************************************************************************)
(* Live-Audio-Translator: the translation servers of src/lib.              *)
(*                                                                         *)
(* translation_server.py is a Flask application around one process-wide    *)
(* TranslationService object; translation_server_backup.py is the older,   *)
(* stateless server.  Each request handler is one action.  The outcome of  *)
(* a model load or of a provider call is the environment's choice: every   *)
(* action draws the set of faults that strike during the request.          *)
(*                                                                         *)
(* Python values that may be None, a str or a dict are tagged tuples:      *)
(* None is <<"None">>, a str is <<"str", chars>>, a dict <<"dict", rec>>.  *)
(***************************************************************************)
EXTENDS Integers, Sequences, FiniteSets, TLC

VARIABLES
    phase,           \* "init" before preload_all_models has run, then "serving"
    cuda_available,  \* torch.cuda.is_available(), fixed for the process
    svc,             \* the TranslationService instance of translation_server.py
    req,             \* the last request handled: [server, endpoint, data, faults]
    resp,            \* its response: [code, kind, body, escaped]
    calls,           \* the adapter invocations it made, in order
    handlers,        \* the request threads of the server, with their tasks
    loads,           \* the model loads performed so far, per cache key
    pair,            \* two results and the pairwise metrics of both orders
    fixed,           \* the faults of backends whose outcomes never change
    first            \* the first answer to each request, by request

vars == <<phase, cuda_available, svc, req, resp, calls,
          handlers, loads, pair, fixed, first>>

\* What one kind of behaviour leaves alone
threadVars == <<handlers, loads>>

repeatVars == <<fixed, first>>

restVars == <<handlers, loads, pair, fixed, first>>

(* ------------------------------ bounds -------------------------------- *)

\* The longest `models` list a /compare-custom request carries.
MaxModels == 2

\* translation_count is unbounded in the code; requests stop at this value.
MaxCount == 3

\* The requests the threaded server handles at the same time.
MaxThreads == 2

(* --------------------------- Python values ---------------------------- *)

None == <<"None">>

Str(s) == <<"str", s>>

Dict(d) == <<"dict", d>>

IsNone(v) == v[1] = "None"

IsStr(v) == v[1] = "str"

\* bool(v) of Python for None, str and dict values
Truthy(v) ==
    CASE v[1] = "None" -> FALSE
      [] v[1] = "str"  -> Len(v[2]) > 0
      [] OTHER         -> TRUE

\* d.get(k, default) of a request body
Get(d, k, default) == IF k \in DOMAIN d THEN d[k] ELSE default

\* str.lower() on the target-language strings requests carry
Lower(s) == IF s = "French" THEN "french" ELSE s

\* A Python dict with str keys, in insertion order: assigning to a key that
\* is present keeps the key's position.
EmptyDict == [keys |-> <<>>, val |-> <<>>]

HasKey(d, k) == \E i \in 1..Len(d.keys) : d.keys[i] = k

SetItem(d, k, v) ==
    IF HasKey(d, k)
    THEN [d EXCEPT !.val = [i \in 1..Len(d.keys) |->
                               IF d.keys[i] = k THEN v ELSE d.val[i]]]
    ELSE [keys |-> Append(d.keys, k), val |-> Append(d.val, v)]

GetItem(d, k) == d.val[CHOOSE i \in 1..Len(d.keys) : d.keys[i] = k]

KeySet(d) == {d.keys[i] : i \in 1..Len(d.keys)}

RECURSIVE FilterSeq(_, _)
\* [k for k in keys if k in keep]
FilterSeq(keys, keep) ==
    IF keys = <<>> THEN <<>>
    ELSE (IF Head(keys) \in keep THEN <<Head(keys)>> ELSE <<>>)
         \o FilterSeq(Tail(keys), keep)

RECURSIVE Gcd(_, _)
Gcd(a, b) == IF b = 0 THEN a ELSE Gcd(b, a % b)

\* n / d of Python on small non-negative ints (d > 0): two quotients are the
\* same float exactly when they are the same fraction in lowest terms.
Div(n, d) == <<n \div Gcd(n, d), d \div Gcd(n, d)>>

\* time.time() - start_time of a backend call that did some work
Elapsed == 1

(* ------------------------ TranslationService -------------------------- *)

\* self.marian_lang_codes.keys(), in the order preload_all_models walks them
marian_lang_codes ==
    <<"chinese", "tamil", "french", "spanish", "german", "japanese", "korean">>

MarianLangs == {marian_lang_codes[i] : i \in 1..Len(marian_lang_codes)}

\* the keys of self.m2m100_lang_codes and of self.madlad_lang_codes
m2m100_lang_codes == MarianLangs \cup {"english"}

madlad_lang_codes == MarianLangs \cup {"english"}

\* lang_codes of translate_with_google
google_lang_codes == MarianLangs

LangCode(l) ==
    CASE l = "chinese"  -> "zh"
      [] l = "tamil"    -> "ta"
      [] l = "french"   -> "fr"
      [] l = "spanish"  -> "es"
      [] l = "german"   -> "de"
      [] l = "japanese" -> "ja"
      [] l = "korean"   -> "ko"
      [] l = "english"  -> "en"

\* TranslationService.__init__ with the preload still to run
NewService ==
    [ device            |-> IF cuda_available THEN "cuda" ELSE "cpu",
      marian_models     |-> <<>>,
      m2m100_model      |-> None,
      m2m100_tokenizer  |-> None,
      madlad_model      |-> None,
      madlad_tokenizer  |-> None,
      google_translator |-> None,
      translation_count |-> 0,
      models_loaded     |-> [google |-> FALSE, m2m100 |-> FALSE,
                             madlad |-> FALSE, marian |-> <<>>] ]

\* marian_models of get_marian_model_name
MarianModelName(l) ==
    CASE l = "chinese"  -> "Helsinki-NLP/opus-mt-en-zh"
      [] l = "tamil"    -> "Helsinki-NLP/opus-mt-en-ta"
      [] l = "french"   -> "Helsinki-NLP/opus-mt-en-fr"
      [] l = "spanish"  -> "Helsinki-NLP/opus-mt-en-es"
      [] l = "german"   -> "Helsinki-NLP/opus-mt-en-de"
      [] l = "japanese" -> "Helsinki-NLP/opus-mt-en-jap"
      [] l = "korean"   -> "Helsinki-NLP/opus-mt-en-ko"

get_marian_model_name(target_language) ==
    IF Lower(target_language) \in MarianLangs
    THEN MarianModelName(Lower(target_language))
    ELSE "Helsinki-NLP/opus-mt-en-mul"

\* The loaders return the service after the call and the exception raised,
\* None when the call returned.
load_marian_model(s, target_language, faults) ==
    IF target_language \in DOMAIN s.marian_models
    THEN [svc |-> s, raised |-> None]
    ELSE IF "marian_load" \in faults
    THEN [svc |-> s, raised |-> Str("marian model load failed")]
    ELSE [svc |-> [s EXCEPT !.marian_models = @ @@ (target_language :>
                      [model_name |-> get_marian_model_name(target_language),
                       device     |-> IF cuda_available THEN s.device
                                                        ELSE "cpu"])],
          raised |-> None]

\* load_m2m100_model never raises.  On a CUDA host it moves the service's
\* device to the CPU when the GPU is small or the move to the GPU runs out
\* of memory.
load_m2m100_model(s, faults) ==
    IF ~IsNone(s.m2m100_model) THEN s
    ELSE LET low == cuda_available /\ "low_gpu_memory" \in faults
             s1  == IF low THEN [s EXCEPT !.device = "cpu"] ELSE s
         IN  IF "m2m100_load" \in faults
             THEN [s1 EXCEPT !.m2m100_model = None, !.m2m100_tokenizer = None]
             ELSE IF cuda_available /\ "m2m100_oom" \in faults
             THEN [s1 EXCEPT !.device = "cpu",
                             !.m2m100_model = Str("cpu"),
                             !.m2m100_tokenizer = Str("tokenizer")]
             ELSE [s1 EXCEPT !.m2m100_model = Str(s1.device),
                             !.m2m100_tokenizer = Str("tokenizer")]

load_madlad_model(s, faults) ==
    IF ~IsNone(s.madlad_model) THEN s
    ELSE IF "madlad_load" \in faults
         THEN [s EXCEPT !.madlad_model = None, !.madlad_tokenizer = None]
         ELSE IF cuda_available /\ "madlad_oom" \in faults
         THEN [s EXCEPT !.device = "cpu",
                        !.madlad_model = Str("cpu"),
                        !.madlad_tokenizer = Str("tokenizer")]
         ELSE [s EXCEPT !.madlad_model = Str(s.device),
                        !.madlad_tokenizer = Str("tokenizer")]

load_google_translator(s, faults) ==
    IF ~IsNone(s.google_translator)
    THEN [svc |-> s, raised |-> None]
    ELSE IF "google_init" \in faults
    THEN [svc |-> s, raised |-> Str("translator init failed")]
    ELSE [svc |-> [s EXCEPT !.google_translator = Str("Translator")],
          raised |-> None]

\* The five-field result of a backend call
Success(model, translation) ==
    [translation |-> Str(translation), latency |-> Elapsed, model |-> model,
     status |-> "success", error |-> None]

Failed(model, latency, error) ==
    [translation |-> None, latency |-> latency, model |-> model,
     status |-> "failed", error |-> Str(error)]

\* What a provider answers for a text: its language tag, then the text.
Output(tag, text) == <<tag>> \o text[2]

\* The tensors of a model and of its inputs must be on one device.
InputDevice(s) == IF cuda_available THEN s.device ELSE "cpu"

\* A call of a backend ends in a return or in an exception:
\* [svc, result, raised], raised None when the call returned.  Every return
\* statement of the translate_with_* methods hands back a result.
Return(s, result) == [svc |-> s, result |-> result, raised |-> None]

\* translate_with_marian with the load outside its try: what load_marian_model
\* raises leaves the method.
translate_with_marian_load_unguarded(s, text, target_language, faults) ==
    LET l == load_marian_model(s, target_language, faults) IN
    IF ~IsNone(l.raised)
    THEN [svc |-> l.svc, result |-> Failed("MarianMT", 0, l.raised[2]),
          raised |-> l.raised]
    ELSE IF "marian_generate" \in faults
    THEN Return(l.svc, Failed("MarianMT", Elapsed, "generate failed"))
    ELSE Return(l.svc, Success("MarianMT",
                   Output(l.svc.marian_models[target_language].model_name, text)))

\* translate_with_marian: the load and the generation run inside its try.
translate_with_marian(s, text, target_language, faults) ==
    LET l == load_marian_model(s, target_language, faults) IN
    IF ~IsNone(l.raised)
    THEN Return(l.svc, Failed("MarianMT", Elapsed, l.raised[2]))
    ELSE LET m == l.svc.marian_models[target_language] IN
         IF m.device # InputDevice(l.svc)
         THEN Return(l.svc, Failed("MarianMT", Elapsed, "tensors on two devices"))
         ELSE IF "marian_generate" \in faults
         THEN Return(l.svc, Failed("MarianMT", Elapsed, "generate failed"))
         ELSE Return(l.svc, Success("MarianMT", Output(m.model_name, text)))

\* translate_with_m2m100 looking up the language before the model
translate_with_m2m100_language_first(s, text, target_language, faults) ==
    IF Lower(target_language) \notin m2m100_lang_codes
    THEN Return(s, Failed("M2M-100", Elapsed,
            "Unsupported language: " \o target_language))
    ELSE IF IsNone(s.m2m100_model) \/ IsNone(s.m2m100_tokenizer)
    THEN Return(s, Failed("M2M-100", Elapsed,
            "M2M-100 model not available (failed to load at startup)"))
    ELSE IF "m2m100_generate" \in faults
    THEN Return(s, Failed("M2M-100", Elapsed, "generate failed"))
    ELSE Return(s, Success("M2M-100",
                      Output(LangCode(Lower(target_language)), text)))

translate_with_m2m100(s, text, target_language, faults) ==
    IF IsNone(s.m2m100_model) \/ IsNone(s.m2m100_tokenizer)
    THEN Return(s, Failed("M2M-100", Elapsed,
            "M2M-100 model not available (failed to load at startup)"))
    ELSE IF Lower(target_language) \notin m2m100_lang_codes
    THEN Return(s, Failed("M2M-100", Elapsed,
            "Unsupported language: " \o target_language))
    ELSE IF s.m2m100_model[2] #
              (IF cuda_available /\ s.device = "cuda" THEN "cuda" ELSE "cpu")
    THEN Return(s, Failed("M2M-100", Elapsed, "tensors on two devices"))
    ELSE IF "m2m100_generate" \in faults
    THEN Return(s, Failed("M2M-100", Elapsed, "generate failed"))
    ELSE Return(s, Success("M2M-100",
                      Output(LangCode(Lower(target_language)), text)))

translate_with_madlad(s, text, target_language, faults) ==
    IF IsNone(s.madlad_model) \/ IsNone(s.madlad_tokenizer)
    THEN Return(s, Failed("MADLAD-400", Elapsed,
            "MADLAD-400 model not available (failed to load at startup)"))
    ELSE IF Lower(target_language) \notin madlad_lang_codes
    THEN Return(s, Failed("MADLAD-400", Elapsed,
            "Unsupported language: " \o target_language))
    ELSE IF s.madlad_model[2] #
              (IF cuda_available /\ s.device = "cuda" THEN "cuda" ELSE "cpu")
    THEN Return(s, Failed("MADLAD-400", Elapsed, "tensors on two devices"))
    ELSE IF "madlad_generate" \in faults
    THEN Return(s, Failed("MADLAD-400", Elapsed, "generate failed"))
    ELSE Return(s, Success("MADLAD-400",
                      Output(LangCode(Lower(target_language)), text)))

\* dest of the provider call: the mapped code, or the caller's string
GoogleDest(target_language) ==
    IF Lower(target_language) \in google_lang_codes
    THEN LangCode(Lower(target_language))
    ELSE target_language

\* translate_with_google whose first call on a translator it has just
\* built fails: the answer depends on what earlier requests left behind.
translate_with_google_cold_failing(s, text, target_language, faults) ==
    LET l == load_google_translator(s, faults) IN
    IF ~IsNone(l.raised)
    THEN Return(l.svc, Failed("Google Translate", Elapsed, l.raised[2]))
    ELSE IF "google_call" \in faults \/ IsNone(s.google_translator)
    THEN Return(l.svc, Failed("Google Translate", Elapsed, "provider error"))
    ELSE Return(l.svc, Success("Google Translate",
                          Output(GoogleDest(target_language), text)))

translate_with_google(s, text, target_language, faults) ==
    LET l == load_google_translator(s, faults) IN
    IF ~IsNone(l.raised)
    THEN Return(l.svc, Failed("Google Translate", Elapsed, l.raised[2]))
    ELSE IF "google_call" \in faults
    THEN Return(l.svc, Failed("Google Translate", Elapsed, "provider error"))
    ELSE Return(l.svc, Success("Google Translate",
                          Output(GoogleDest(target_language), text)))

\* translate_with_chatgpt without the .strip(): a reply without content is
\* handed back as it is.
translate_with_chatgpt_unstripped(text, target_language, faults) ==
    IF "chatgpt_call" \in faults
    THEN [value |-> None, raised |-> Str("openai error")]
    ELSE IF "chatgpt_empty" \in faults
    THEN [value |-> None, raised |-> None]
    ELSE [value |-> Str(Output(Lower(target_language), text)), raised |-> None]

\* translate_with_chatgpt of translation_server.py returns the bare
\* translation and re-raises what the provider call raised; a reply without
\* content makes .strip() raise.
translate_with_chatgpt(text, target_language, faults) ==
    IF "chatgpt_call" \in faults
    THEN [value |-> None, raised |-> Str("openai error")]
    ELSE IF "chatgpt_empty" \in faults
    THEN [value |-> None,
          raised |-> Str("'NoneType' object has no attribute 'strip'")]
    ELSE [value |-> Str(Output(Lower(target_language), text)), raised |-> None]

(* --------------------- translation_server.py routes ------------------- *)

\* One adapter invocation, as the route saw it end
Call(adapter, t) ==
    [adapter |-> adapter,
     outcome |-> IF IsNone(t.raised) THEN "returned" ELSE "raised"]

\* What a handler hands back: the service after the request, the response
\* and the adapter invocations made.  escaped: an exception left the handler
\* and Flask answered with its 500 error handler.
Out(s, code, kind, body, made) ==
    [svc |-> s, calls |-> made,
     resp |-> [code |-> code, kind |-> kind, body |-> body, escaped |-> FALSE]]

\* internal_error, the app's errorhandler(500)
internal_error(s, made) ==
    [svc |-> s, calls |-> made,
     resp |-> [code |-> 500, kind |-> "internal_error",
               body |-> [error   |-> Str("Internal server error"),
                         message |-> Str("An unexpected error occurred")],
               escaped |-> TRUE]]

\* str(e) of the exception request.get_json() or data.get raises on a body
\* that is no JSON object
BodyError(data) ==
    IF IsNone(data) THEN "'NoneType' object has no attribute 'get'"
                    ELSE "400 Bad Request"

IsObject(data) == data[1] = "dict"

NoText(model) ==
    [translation |-> None, latency |-> 0, model |-> model,
     status |-> "failed", error |-> Str("No text provided")]

\* The body an except clause of a single-backend route builds
Caught(model, error) ==
    [translation |-> None, latency |-> 0, model |-> model,
     status |-> "failed", error |-> Str(error)]

StatusCode(result) == IF result.status = "success" THEN 200 ELSE 500

Counted(s, n) == [s EXCEPT !.translation_count = @ + n]

ErrorBody(msg) == [error |-> Str(msg)]

\* The tail the single-backend routes of the service share: count, then 200
\* or 500 by the result's status; an exception out of the adapter goes to
\* the route's except clause.
Answer(model, adapter, t) ==
    IF ~IsNone(t.raised)
    THEN Out(t.svc, 500, "result", Caught(model, t.raised[2]),
             <<Call(adapter, t)>>)
    ELSE Out(Counted(t.svc, 1), StatusCode(t.result), "result", t.result,
             <<Call(adapter, t)>>)

\* /translate.  Its except clause reads `model`, which is bound only after
\* data.get('model', ...) has run.
translate(s, data, faults) ==
    IF ~IsObject(data) THEN internal_error(s, <<>>)
    ELSE LET text            == Get(data[2], "text", Str(<<>>))
             target_language == Get(data[2], "targetLanguage", "french")
             model           == Get(data[2], "model", "marian")
         IN  IF ~Truthy(text)
             THEN Out(s, 400, "result", NoText(model), <<>>)
             ELSE IF model = "google"
             THEN Answer(model, "google",
                         translate_with_google(s, text, target_language, faults))
             ELSE Answer(model, "marian",
                         translate_with_marian(s, text, target_language, faults))

\* /translate-m2m100 counting the request before it looks at the text
translate_m2m100_counting_first(s, data, faults) ==
    IF ~IsObject(data)
    THEN Out(s, 500, "result", Caught("M2M-100", BodyError(data)), <<>>)
    ELSE LET text            == Get(data[2], "text", Str(<<>>))
             target_language == Get(data[2], "targetLanguage", "french")
             t == translate_with_m2m100(s, text, target_language, faults)
         IN  IF ~Truthy(text)
             THEN Out(Counted(s, 1), 400, "result", NoText("M2M-100"), <<>>)
             ELSE Out(Counted(t.svc, 1), StatusCode(t.result), "result",
                      t.result, <<Call("m2m100", t)>>)

translate_m2m100(s, data, faults) ==
    IF ~IsObject(data)
    THEN Out(s, 500, "result", Caught("M2M-100", BodyError(data)), <<>>)
    ELSE LET text            == Get(data[2], "text", Str(<<>>))
             target_language == Get(data[2], "targetLanguage", "french")
         IN  IF ~Truthy(text)
             THEN Out(s, 400, "result", NoText("M2M-100"), <<>>)
             ELSE Answer("M2M-100", "m2m100",
                         translate_with_m2m100(s, text, target_language, faults))

translate_madlad(s, data, faults) ==
    IF ~IsObject(data)
    THEN Out(s, 500, "result", Caught("MADLAD-400", BodyError(data)), <<>>)
    ELSE LET text            == Get(data[2], "text", Str(<<>>))
             target_language == Get(data[2], "targetLanguage", "french")
         IN  IF ~Truthy(text)
             THEN Out(s, 400, "result", NoText("MADLAD-400"), <<>>)
             ELSE Answer("MADLAD-400", "madlad",
                         translate_with_madlad(s, text, target_language, faults))

translate_google(s, data, faults) ==
    IF ~IsObject(data)
    THEN Out(s, 500, "result", Caught("Google Translate", BodyError(data)), <<>>)
    ELSE LET text            == Get(data[2], "text", Str(<<>>))
             target_language == Get(data[2], "targetLanguage", "french")
         IN  IF ~Truthy(text)
             THEN Out(s, 400, "result", NoText("Google Translate"), <<>>)
             ELSE Answer("Google Translate", "google",
                         translate_with_google(s, text, target_language, faults))

\* /translate-chatgpt builds the result itself around the helper's string.
translate_chatgpt(s, data, faults) ==
    IF ~IsObject(data)
    THEN Out(s, 500, "result", Caught("ChatGPT", BodyError(data)), <<>>)
    ELSE LET text            == Get(data[2], "text", Str(<<>>))
             target_language == Get(data[2], "targetLanguage", "french")
         IN  IF ~Truthy(text)
             THEN Out(s, 400, "result", NoText("ChatGPT"), <<>>)
             ELSE LET c == translate_with_chatgpt(text, target_language, faults)
                  IN  IF ~IsNone(c.raised)
                      THEN Out(s, 500, "result",
                               Caught("ChatGPT", c.raised[2]),
                               <<Call("chatgpt", c)>>)
                      ELSE Out(Counted(s, 1), 200, "result",
                               [translation |-> c.value, latency |-> Elapsed,
                                model |-> "ChatGPT", status |-> "success",
                                error |-> None],
                               <<Call("chatgpt", c)>>)

Abs(n) == IF n < 0 THEN -n ELSE n

\* The first exception among the futures, in the order .result() is called
FirstRaised(ts) ==
    IF \E i \in 1..Len(ts) : ~IsNone(ts[i].raised)
    THEN ts[CHOOSE i \in 1..Len(ts) :
               /\ ~IsNone(ts[i].raised)
               /\ \A j \in 1..(i - 1) : IsNone(ts[j].raised)].raised
    ELSE None

\* The comparison metrics of /compare, for two results whose translations
\* are str.  The note reads "MarianMT was faster|slower by <n>s".
TwoModelComparison(marian_result, google_result) ==
    LET speed_diff == marian_result.latency - google_result.latency IN
    [are_same    |-> marian_result.translation = google_result.translation,
     length_diff |-> Abs(Len(marian_result.translation[2])
                         - Len(google_result.translation[2])),
     speed_diff  |-> speed_diff,
     note        |-> IF speed_diff < 0 THEN "MarianMT was faster"
                                       ELSE "MarianMT was slower"]

\* /compare.  Both tasks run to their end before the with block is left.
\* result.get('translation', '') is None for a failed result (the key is
\* present), and len(None) raises TypeError inside the try.
compare_two_models(s, data, faults) ==
    IF ~IsObject(data) THEN Out(s, 500, "error", ErrorBody(BodyError(data)), <<>>)
    ELSE LET text            == Get(data[2], "text", Str(<<>>))
             target_language == Get(data[2], "targetLanguage", "french")
         IN  IF ~Truthy(text)
             THEN Out(s, 400, "error", ErrorBody("No text provided"), <<>>)
             ELSE LET m  == translate_with_marian(s, text, target_language, faults)
                      g  == translate_with_google(m.svc, text, target_language, faults)
                      made == <<Call("marian", m), Call("google", g)>>
                      e  == FirstRaised(<<m, g>>)
                      s2 == Counted(g.svc, 2)
                      mt == m.result.translation
                      gt == g.result.translation
                  IN  IF ~IsNone(e)
                      THEN Out(g.svc, 500, "error", [error |-> e], made)
                      ELSE IF IsNone(mt) \/ IsNone(gt)
                      THEN Out(s2, 500, "error",
                               ErrorBody("object of type 'NoneType' has no len()"),
                               made)
                      ELSE Out(s2, 200, "compare",
                               [source_text |-> text,
                                target_language |-> target_language,
                                marian |-> m.result, google |-> g.result,
                                comparison |->
                                  TwoModelComparison(m.result, g.result)],
                               made)

SuccessfulOf(results) ==
    FilterSeq(results.keys,
              {k \in KeySet(results) : GetItem(results, k).status = "success"})

compare_three_models(s, data, faults) ==
    IF ~IsObject(data) THEN Out(s, 500, "error", ErrorBody(BodyError(data)), <<>>)
    ELSE LET text            == Get(data[2], "text", Str(<<>>))
             target_language == Get(data[2], "targetLanguage", "french")
         IN  IF ~Truthy(text)
             THEN Out(s, 400, "error", ErrorBody("No text provided"), <<>>)
             ELSE LET m  == translate_with_marian(s, text, target_language, faults)
                      m2 == translate_with_m2m100(m.svc, text, target_language, faults)
                      md == translate_with_madlad(m2.svc, text, target_language, faults)
                      made == <<Call("marian", m), Call("m2m100", m2),
                                Call("madlad", md)>>
                      e  == FirstRaised(<<m, m2, md>>)
                      results == SetItem(SetItem(SetItem(EmptyDict,
                                    "marian", m.result), "m2m100", m2.result),
                                    "madlad", md.result)
                      successful_models == SuccessfulOf(results)
                  IN  IF ~IsNone(e)
                      THEN Out(md.svc, 500, "error", [error |-> e], made)
                      ELSE Out(Counted(md.svc, 3), 200, "compare_three",
                               [source_text |-> text,
                                target_language |-> target_language,
                                results |-> results,
                                comparison |->
                                  [successful_models |-> successful_models,
                                   total_models |-> 3,
                                   success_rate |-> Div(Len(successful_models), 3)]],
                               made)

\* model_functions of /compare-custom
model_functions == {"marian", "m2m100", "madlad", "google"}

Invoke(model, s, text, target_language, faults) ==
    CASE model = "marian" -> translate_with_marian(s, text, target_language, faults)
      [] model = "m2m100" -> translate_with_m2m100(s, text, target_language, faults)
      [] model = "madlad" -> translate_with_madlad(s, text, target_language, faults)
      [] model = "google" -> translate_with_google(s, text, target_language, faults)

\* The tasks /compare-custom submits: one per element of `models` that is a
\* key of model_functions.
Submitted(models) == FilterSeq(models, model_functions)

RECURSIVE RunTasks(_, _, _, _, _)
\* The submitted tasks, run in the order of submission, each to its end:
\* the outcomes, in that order, and the service after the last.
RunTasks(tasks, s, text, target_language, faults) ==
    IF tasks = <<>> THEN [svc |-> s, done |-> <<>>]
    ELSE LET t == Invoke(Head(tasks), s, text, target_language, faults)
             r == RunTasks(Tail(tasks), t.svc, text, target_language, faults)
         IN  [svc |-> r.svc, done |-> <<t>> \o r.done]

RECURSIVE Collect(_, _, _)
\* futures[model] is the last task submitted for the id, at the position of
\* the first; results[model] = future.result() in that order.
Collect(tasks, done, futures) ==
    IF tasks = <<>> THEN futures
    ELSE Collect(Tail(tasks), Tail(done),
                 SetItem(futures, Head(tasks), Head(done)))

\* success_rate taken over the entries of results
success_rate_over_results(successful_models, models, results) ==
    IF Len(results.keys) = 0 THEN <<0, 1>>
    ELSE Div(Len(successful_models), Len(results.keys))

\* success_rate with a success counted for every occurrence of its id in
\* `models`, over the entries of results
success_rate_per_occurrence(successful_models, models, results) ==
    IF Len(results.keys) = 0 THEN <<0, 1>>
    ELSE <<Cardinality({i \in 1..Len(models) :
                          \E j \in 1..Len(successful_models) :
                             successful_models[j] = models[i]}),
           Len(results.keys)>>

\* success_rate of /compare-custom
success_rate(successful_models, models, results) ==
    Div(Len(successful_models), Len(models))

compare_custom_models(s, data, faults) ==
    IF ~IsObject(data) THEN Out(s, 500, "error", ErrorBody(BodyError(data)), <<>>)
    ELSE LET text            == Get(data[2], "text", Str(<<>>))
             target_language == Get(data[2], "targetLanguage", "french")
             models          == Get(data[2], "models", <<"marian", "m2m100">>)
         IN  IF ~Truthy(text)
             THEN Out(s, 400, "error", ErrorBody("No text provided"), <<>>)
             ELSE IF Len(models) = 0
             THEN Out(s, 400, "error", ErrorBody("No models specified"), <<>>)
             ELSE LET tasks   == Submitted(models)
                      r       == RunTasks(tasks, s, text, target_language, faults)
                      futures == Collect(tasks, r.done, EmptyDict)
                      made    == [i \in 1..Len(tasks) |-> Call(tasks[i], r.done[i])]
                      e       == FirstRaised(futures.val)
                      results == [futures EXCEPT !.val =
                                     [i \in 1..Len(futures.val) |->
                                         futures.val[i].result]]
                      successful_models == SuccessfulOf(results)
                  IN  IF ~IsNone(e)
                      THEN Out(r.svc, 500, "error", [error |-> e], made)
                      ELSE Out(Counted(r.svc, Len(models)), 200, "compare_custom",
                               [source_text |-> text,
                                target_language |-> target_language,
                                selected_models |-> models,
                                results |-> results,
                                successful_models |-> successful_models,
                                success_rate |->
                                  success_rate(successful_models, models, results)],
                               made)

(* ------------------------------ preload ------------------------------- *)

RECURSIVE PreloadMarianUntilFailure(_, _, _)
\* Step 2 of preload_all_models giving up at the first language that fails
PreloadMarianUntilFailure(s, langs, failing) ==
    IF langs = <<>> THEN s
    ELSE LET language == Head(langs)
             l == load_marian_model(s, language,
                     IF language \in failing THEN {"marian_load"} ELSE {})
             s1 == [l.svc EXCEPT !.models_loaded.marian =
                        @ @@ (language :> IsNone(l.raised))]
         IN  IF IsNone(l.raised)
             THEN PreloadMarianUntilFailure(s1, Tail(langs), failing)
             ELSE s1

RECURSIVE PreloadMarian(_, _, _)
\* Step 2 of preload_all_models: every language of marian_lang_codes in
\* turn; failing: the languages whose model cannot be loaded.
PreloadMarian(s, langs, failing) ==
    IF langs = <<>> THEN s
    ELSE LET language == Head(langs)
             l == load_marian_model(s, language,
                     IF language \in failing THEN {"marian_load"} ELSE {})
             s1 == [l.svc EXCEPT !.models_loaded.marian =
                        @ @@ (language :> IsNone(l.raised))]
         IN  PreloadMarian(s1, Tail(langs), failing)

preload_all_models(s, faults, failing) ==
    LET g  == load_google_translator(s, faults)
        s1 == IF IsNone(g.raised)
              THEN [g.svc EXCEPT !.models_loaded.google = TRUE]
              ELSE g.svc
        s2 == PreloadMarian(s1, marian_lang_codes, failing)
        s3 == load_m2m100_model(s2, faults)
        s4 == [s3 EXCEPT !.models_loaded.m2m100 = ~IsNone(s3.m2m100_model)]
        s5 == load_madlad_model(s4, faults)
    IN  [s5 EXCEPT !.models_loaded.madlad = ~IsNone(s5.madlad_model)]

(* ------------------ translation_server_backup.py ---------------------- *)

\* The backup server keeps no state between requests: it loads the MarianMT
\* model and builds the Google translator anew in every call.  Its helpers
\* return a value or raise: [value, raised].

\* language_map of get_google_language_code; get_model_name has the same keys
BackupCode(l) ==
    CASE l = "french"     -> "fr"
      [] l = "spanish"    -> "es"
      [] l = "german"     -> "de"
      [] l = "italian"    -> "it"
      [] l = "japanese"   -> "ja"
      [] l = "chinese"    -> "zh"
      [] l = "portuguese" -> "pt"
      [] l = "dutch"      -> "nl"
      [] l = "korean"     -> "ko"
      [] l = "thai"       -> "th"
      [] l = "vietnamese" -> "vi"
      [] l = "indonesian" -> "id"
      [] l = "tamil"      -> "ta"

BackupLangs ==
    {"french", "spanish", "german", "italian", "japanese", "chinese",
     "portuguese", "dutch", "korean", "thai", "vietnamese", "indonesian",
     "tamil"}

BackupModelName(l) ==
    CASE l = "japanese"   -> "Helsinki-NLP/opus-mt-en-jap"
      [] l = "portuguese" -> "Helsinki-NLP/opus-mt-en-roa"
      [] OTHER            -> "Helsinki-NLP/opus-mt-en-" \o BackupCode(l)

\* get_model_name: an unknown language falls back to French
get_model_name(target_language) ==
    IF Lower(target_language) \in BackupLangs
    THEN BackupModelName(Lower(target_language))
    ELSE BackupModelName("french")

\* get_google_language_code: an unknown language falls back to "fr"
get_google_language_code(target_language) ==
    IF Lower(target_language) \in BackupLangs
    THEN BackupCode(Lower(target_language))
    ELSE "fr"

bk_translate_with_marian(text, target_language, faults) ==
    IF "marian_load" \in faults
    THEN [value |-> None,
          raised |-> Str("Failed to load MarianMT model for " \o target_language)]
    ELSE IF "marian_generate" \in faults
    THEN [value |-> None, raised |-> Str("generate failed")]
    ELSE [value |-> Str(Output(get_model_name(target_language), text)),
          raised |-> None]

bk_translate_with_google(text, target_language, faults) ==
    IF "google_init" \in faults \/ "google_call" \in faults
    THEN [value |-> None, raised |-> Str("provider error")]
    ELSE [value |-> Str(Output(get_google_language_code(target_language), text)),
          raised |-> None]

\* translate_with_chatgpt of the backup server returns a result dict for
\* every outcome and raises nothing.
bk_translate_with_chatgpt(text, target_language, faults) ==
    IF "chatgpt_call" \in faults
    THEN [value |-> Dict(Failed("ChatGPT", Elapsed, "openai error")),
          raised |-> None]
    ELSE IF "chatgpt_empty" \in faults
    THEN [value |-> Dict(Failed("ChatGPT", Elapsed,
                            "'NoneType' object has no attribute 'strip'")),
          raised |-> None]
    ELSE [value |-> Dict(Success("ChatGPT",
                            Output(Lower(target_language), text))),
          raised |-> None]

BkOut(code, kind, body, made) ==
    [calls |-> made,
     resp |-> [code |-> code, kind |-> kind, body |-> body, escaped |-> FALSE]]

\* `not data or 'text' not in data or 'targetLanguage' not in data`
MissingFields(data, fields) ==
    \/ IsNone(data)
    \/ \E k \in fields : k \notin DOMAIN data[2]

\* The entry a try/except block of the backup routes stores for a backend
BkEntry(model, t) ==
    IF IsNone(t.raised)
    THEN [translation |-> t.value, latency |-> Elapsed, model |-> model,
          status |-> "success"]
    ELSE [translation |-> None, latency |-> 0, model |-> model,
          status |-> "failed", error |-> t.raised]

\* str.lower() and str.strip() on the characters translations are made of
LowerChar(c) ==
    CASE c = "A" -> "a"
      [] c = "B" -> "b"
      [] OTHER   -> c

LowerText(t) == [i \in 1..Len(t) |-> LowerChar(t[i])]

RECURSIVE LStrip(_)
LStrip(t) == IF t # <<>> /\ Head(t) = " " THEN LStrip(Tail(t)) ELSE t

RECURSIVE RStrip(_)
RStrip(t) ==
    IF t # <<>> /\ t[Len(t)] = " " THEN RStrip(SubSeq(t, 1, Len(t) - 1)) ELSE t

StripText(t) == RStrip(LStrip(t))

\* round(x, 3) of a difference of latencies, the latencies counted in
\* 1/10000 s: the nearest multiple of 10, a tie going to the even one
Round3(n) ==
    LET q  == Abs(n) \div 10
        r  == Abs(n) % 10
        up == IF r > 5 \/ (r = 5 /\ q % 2 = 1) THEN q + 1 ELSE q
    IN  IF n < 0 THEN -(up * 10) ELSE up * 10

\* {"are_same", "length_diff", "speed_diff"} of the backup routes, for two
\* str translations
BkPair(trans1, latency1, trans2, latency2) ==
    [are_same    |-> StripText(LowerText(trans1[2])) = StripText(LowerText(trans2[2])),
     length_diff |-> Len(trans2[2]) - Len(trans1[2]),
     speed_diff  |-> Round3(latency2 - latency1)]

bk_translate(data, faults) ==
    IF ~IsNone(data) /\ ~IsObject(data)
    THEN BkOut(500, "error", ErrorBody(BodyError(data)), <<>>)
    ELSE IF MissingFields(data, {"text", "targetLanguage"})
    THEN BkOut(400, "error",
               ErrorBody("Missing required fields: text, targetLanguage"), <<>>)
    ELSE LET text            == data[2].text
             target_language == data[2].targetLanguage
             model_type      == Get(data[2], "model", "marian")
             t == IF model_type = "google"
                  THEN bk_translate_with_google(text, target_language, faults)
                  ELSE bk_translate_with_marian(text, target_language, faults)
             made == <<Call(IF model_type = "google" THEN "google" ELSE "marian", t)>>
         IN  IF ~IsNone(t.raised)
             THEN BkOut(500, "error", [error |-> t.raised], made)
             ELSE BkOut(200, "translation",
                        [translation |-> t.value, source_text |-> text,
                         target_language |-> target_language,
                         model |-> model_type, latency |-> Elapsed], made)

\* /translate-chatgpt of the backup puts the helper's dict into "translation"
bk_translate_chatgpt(data, faults) ==
    IF ~IsNone(data) /\ ~IsObject(data)
    THEN BkOut(500, "error", ErrorBody(BodyError(data)), <<>>)
    ELSE IF MissingFields(data, {"text", "targetLanguage"})
    THEN BkOut(400, "error",
               ErrorBody("Missing required fields: text, targetLanguage"), <<>>)
    ELSE LET text            == data[2].text
             target_language == data[2].targetLanguage
             t == bk_translate_with_chatgpt(text, target_language, faults)
         IN  BkOut(200, "translation",
                   [translation |-> t.value, source_text |-> text,
                    target_language |-> target_language,
                    model |-> "ChatGPT", latency |-> Elapsed],
                   <<Call("chatgpt", t)>>)

\* /compare of the backup
compare_translations(data, faults) ==
    IF ~IsNone(data) /\ ~IsObject(data)
    THEN BkOut(500, "error", ErrorBody(BodyError(data)), <<>>)
    ELSE IF MissingFields(data, {"text", "targetLanguage"})
    THEN BkOut(400, "error",
               ErrorBody("Missing required fields: text, targetLanguage"), <<>>)
    ELSE LET text            == data[2].text
             target_language == data[2].targetLanguage
             m == bk_translate_with_marian(text, target_language, faults)
             g == bk_translate_with_google(text, target_language, faults)
             made == <<Call("marian", m), Call("google", g)>>
             entry(model, t) ==
                 IF Truthy(t.value)
                 THEN [translation |-> t.value, latency |-> Elapsed,
                       model |-> model, status |-> "success"]
                 ELSE [translation |-> None, latency |-> 0, model |-> model,
                       status |-> "failed", error |-> t.raised]
         IN  IF IsNone(m.value) /\ IsNone(g.value)
             THEN BkOut(500, "error",
                        ErrorBody("Both translation services failed"), made)
             ELSE BkOut(200, "compare",
                        [source_text |-> text,
                         target_language |-> target_language,
                         marian |-> entry("MarianMT", m),
                         google |-> entry("Google Translate", g),
                         comparison |->
                            IF Truthy(m.value) /\ Truthy(g.value)
                            THEN BkPair(m.value, Elapsed, g.value, Elapsed)
                            ELSE [note |-> "Comparison unavailable - one or both models failed"]],
                        made)

\* f"{model1}_vs_{model2}" for every pair of successful models, in order
PairsOf(successful) ==
    {<<i, j>> \in (1..Len(successful)) \X (1..Len(successful)) : i < j}

\* /compare-three of the backup.  The pairwise loop calls .lower() on each
\* translation; on the ChatGPT entry, whose translation is the helper's
\* dict, that raises AttributeError, which the route's except turns into 500.
bk_compare_three_models(data, faults) ==
    IF ~IsNone(data) /\ ~IsObject(data)
    THEN BkOut(500, "error", ErrorBody(BodyError(data)), <<>>)
    ELSE IF MissingFields(data, {"text", "targetLanguage"})
    THEN BkOut(400, "error",
               ErrorBody("Missing required fields: text, targetLanguage"), <<>>)
    ELSE LET text            == data[2].text
             target_language == data[2].targetLanguage
             m == bk_translate_with_marian(text, target_language, faults)
             g == bk_translate_with_google(text, target_language, faults)
             c == bk_translate_with_chatgpt(text, target_language, faults)
             results == SetItem(SetItem(SetItem(EmptyDict,
                           "marian", BkEntry("MarianMT", m)),
                           "google", BkEntry("Google Translate", g)),
                           "chatgpt", BkEntry("ChatGPT", c))
             successful_models == SuccessfulOf(results)
             made == <<Call("marian", m), Call("google", g), Call("chatgpt", c)>>
             comparison ==
                 [successful_models |-> successful_models,
                  total_models |-> Len(results.keys),
                  success_rate |-> Div(Len(successful_models), Len(results.keys))]
         IN  IF Len(successful_models) < 2
             THEN BkOut(200, "compare_three",
                        [source_text |-> text, target_language |-> target_language,
                         results |-> results, comparison |-> comparison], made)
             ELSE IF \E k \in KeySet(results) :
                        /\ GetItem(results, k).status = "success"
                        /\ ~IsStr(GetItem(results, k).translation)
             THEN BkOut(500, "error",
                        ErrorBody("'dict' object has no attribute 'lower'"), made)
             ELSE BkOut(200, "compare_three",
                        [source_text |-> text, target_language |-> target_language,
                         results |-> results,
                         comparison |->
                            [successful_models |-> successful_models,
                             total_models |-> Len(results.keys),
                             success_rate |-> comparison.success_rate,
                             pairwise |->
                               [p \in PairsOf(successful_models) |->
                                  LET r1 == GetItem(results, successful_models[p[1]])
                                      r2 == GetItem(results, successful_models[p[2]])
                                  IN  BkPair(r1.translation, r1.latency,
                                             r2.translation, r2.latency)]]],
                        made)

BkInvoke(model, text, target_language, faults) ==
    CASE model = "marian"  -> bk_translate_with_marian(text, target_language, faults)
      [] model = "google"  -> bk_translate_with_google(text, target_language, faults)
      [] model = "chatgpt" -> bk_translate_with_chatgpt(text, target_language, faults)

BkModelName(model) ==
    CASE model = "marian"  -> "MarianMT"
      [] model = "google"  -> "Google Translate"
      [] model = "chatgpt" -> "ChatGPT"

\* the ids the if/elif chain of the backup's /compare-custom knows
bk_known_models == {"marian", "google", "chatgpt"}

RECURSIVE BkRunModels(_, _, _, _, _)
\* for model in selected_models: ...   (an id of no branch is passed over)
BkRunModels(models, results, text, target_language, faults) ==
    IF models = <<>> THEN results
    ELSE LET model == Head(models)
             r == IF model \in bk_known_models
                  THEN SetItem(results, model,
                          BkEntry(BkModelName(model),
                                  BkInvoke(model, text, target_language, faults)))
                  ELSE results
         IN  BkRunModels(Tail(models), r, text, target_language, faults)

\* /compare-custom of the backup
bk_compare_custom_models(data, faults) ==
    IF ~IsNone(data) /\ ~IsObject(data)
    THEN BkOut(500, "error", ErrorBody(BodyError(data)), <<>>)
    ELSE IF MissingFields(data, {"text", "targetLanguage", "models"})
    THEN BkOut(400, "error",
               ErrorBody("Missing required fields: text, targetLanguage, models"),
               <<>>)
    ELSE LET text            == data[2].text
             target_language == data[2].targetLanguage
             selected_models == data[2].models
             results == BkRunModels(selected_models, EmptyDict, text,
                                    target_language, faults)
             successful_models == SuccessfulOf(results)
         IN  BkOut(200, "compare_custom",
                   [source_text |-> text, target_language |-> target_language,
                    selected_models |-> selected_models,
                    results |-> results,
                    successful_models |-> successful_models,
                    success_rate |->
                       IF Len(selected_models) > 0
                       THEN Div(Len(successful_models), Len(selected_models))
                       ELSE <<0, 1>>],
                   LET known == FilterSeq(selected_models, bk_known_models)
                   IN  [i \in 1..Len(known) |->
                          Call(known[i], BkInvoke(known[i], text,
                                                  target_language, faults))])

(* ------------------------------ requests ------------------------------ *)

Texts == {Str(<<>>), Str(<<"h", "i">>)}

\* The ids a /compare-custom request names; "doesnotexist" is no key of
\* model_functions.
RequestIds == {"marian", "google", "doesnotexist"}

ModelLists == UNION {[1..n -> RequestIds] : n \in 0..MaxModels}

\* Bodies that are no JSON object: get_json() returns None, or raises.
Malformed == {None, <<"badjson">>}

\* {"text": t, "targetLanguage": l}, and a body without "text"
BasicBodies(languages) ==
    {Dict([text |-> t, targetLanguage |-> l]) : t \in Texts, l \in languages}
    \cup {Dict([targetLanguage |-> "french"])}

TranslateBodies ==
    {Dict([text |-> t, targetLanguage |-> "french", model |-> "google"]) :
        t \in Texts}

CustomBodies ==
    {Dict([text |-> Str(<<"h", "i">>), targetLanguage |-> "french",
           models |-> ms]) : ms \in ModelLists}
    \cup {Dict([text |-> Str(<<>>), targetLanguage |-> "french",
                models |-> <<"marian">>])}

\* The faults that can strike the call of a backend
FaultsOf(model) ==
    CASE model = "marian"  -> {"marian_load", "marian_generate"}
      [] model = "m2m100"  -> {"m2m100_generate"}
      [] model = "madlad"  -> {"madlad_generate"}
      [] model = "google"  -> {"google_init", "google_call"}
      [] model = "chatgpt" -> {"chatgpt_call", "chatgpt_empty"}
      [] OTHER             -> {}

FaultsOfAll(models) == UNION {FaultsOf(models[i]) : i \in 1..Len(models)}

\* The faults that can strike a request: none when no backend is reached.
FaultSets(data, models) ==
    IF IsObject(data) /\ Truthy(Get(data[2], "text", Str(<<>>)))
    THEN SUBSET FaultsOfAll(models)
    ELSE {{}}

NoRequest ==
    [server |-> "none", endpoint |-> "none", data |-> None, faults |-> {}]

NoResponse == [code |-> 0, kind |-> "none", body |-> None, escaped |-> FALSE]

\* No request thread, no pair under comparison, no answer recorded
ThreadsOff == handlers = <<>> /\ loads = <<>>

PairsOff == pair = <<>>

RepeatOff == fixed = {} /\ first = <<>>

InitOn(cuda) ==
    /\ phase = "init"
    /\ cuda_available \in cuda
    /\ svc = NewService
    /\ req = NoRequest
    /\ resp = NoResponse
    /\ calls = <<>>
    /\ ThreadsOff /\ PairsOff /\ RepeatOff

\* translation_service = TranslationService(preload_models=True)
PreloadWith(faultsets, flaky) ==
    /\ phase = "init"
    /\ \E faults \in faultsets, failing \in SUBSET flaky :
          svc' = preload_all_models(svc, faults, failing)
    /\ phase' = "serving"
    /\ UNCHANGED <<cuda_available, req, resp, calls>>
    /\ UNCHANGED restVars

\* One request to translation_server.py, handled from start to end.
Handle(endpoint, data, faults, out) ==
    /\ phase = "serving"
    /\ out.svc.translation_count <= MaxCount
    /\ svc' = out.svc
    /\ resp' = out.resp
    /\ calls' = out.calls
    /\ req' = [server |-> "main", endpoint |-> endpoint, data |-> data,
               faults |-> faults]
    /\ UNCHANGED <<phase, cuda_available>>

Serve(endpoint, data, faults, out) ==
    /\ Handle(endpoint, data, faults, out)
    /\ UNCHANGED restVars

PostTranslate(bodies) ==
    \E data \in bodies :
       \E faults \in FaultSets(data, <<Get(data[2], "model", "marian")>>) :
          Serve("/translate", data, faults, translate(svc, data, faults))

PostTranslateM2M100(bodies) ==
    \E data \in bodies : \E faults \in FaultSets(data, <<"m2m100">>) :
        Serve("/translate-m2m100", data, faults,
              translate_m2m100(svc, data, faults))

PostTranslateMadlad(bodies) ==
    \E data \in bodies : \E faults \in FaultSets(data, <<"madlad">>) :
        Serve("/translate-madlad", data, faults,
              translate_madlad(svc, data, faults))

PostTranslateGoogle(bodies) ==
    \E data \in bodies : \E faults \in FaultSets(data, <<"google">>) :
        Serve("/translate-google", data, faults,
              translate_google(svc, data, faults))

PostTranslateChatGPT(bodies) ==
    \E data \in bodies : \E faults \in FaultSets(data, <<"chatgpt">>) :
        Serve("/translate-chatgpt", data, faults,
              translate_chatgpt(svc, data, faults))

PostCompare(bodies) ==
    \E data \in bodies : \E faults \in FaultSets(data, <<"marian", "google">>) :
        Serve("/compare", data, faults, compare_two_models(svc, data, faults))

PostCompareThree(bodies) ==
    \E data \in bodies :
       \E faults \in FaultSets(data, <<"marian", "m2m100", "madlad">>) :
          Serve("/compare-three", data, faults,
                compare_three_models(svc, data, faults))

PostCompareCustom(bodies) ==
    \E data \in bodies :
       \E faults \in FaultSets(data, Get(data[2], "models", <<"marian", "m2m100">>)) :
          Serve("/compare-custom", data, faults,
                compare_custom_models(svc, data, faults))

\* The @app.route table of translation_server_backup.py
BkRoute(endpoint, data, faults) ==
    CASE endpoint = "/translate"         -> bk_translate(data, faults)
      [] endpoint = "/translate-chatgpt" -> bk_translate_chatgpt(data, faults)
      [] endpoint = "/compare"           -> compare_translations(data, faults)
      [] endpoint = "/compare-three"     -> bk_compare_three_models(data, faults)
      [] endpoint = "/compare-custom"    -> bk_compare_custom_models(data, faults)

\* One request to translation_server_backup.py, handled from start to end.
BkServe(endpoint, data, faults) ==
    LET out == BkRoute(endpoint, data, faults) IN
    /\ phase = "backup"
    /\ resp' = out.resp
    /\ calls' = out.calls
    /\ req' = [server |-> "backup", endpoint |-> endpoint, data |-> data,
               faults |-> faults]
    /\ UNCHANGED <<phase, cuda_available, svc>>
    /\ UNCHANGED restVars

\* The backup validates the fields only: an empty text reaches the backends.
BkFaultSets(data, models) ==
    IF IsObject(data) THEN SUBSET FaultsOfAll(models) ELSE {{}}

BkPostTranslate(bodies) ==
    \E data \in bodies :
       \E faults \in BkFaultSets(data, <<Get(data[2], "model", "marian")>>) :
          BkServe("/translate", data, faults)

BkPostTranslateChatGPT(bodies) ==
    \E data \in bodies : \E faults \in BkFaultSets(data, <<"chatgpt">>) :
        BkServe("/translate-chatgpt", data, faults)

BkPostCompare(bodies) ==
    \E data \in bodies : \E faults \in BkFaultSets(data, <<"marian", "google">>) :
        BkServe("/compare", data, faults)

BkPostCompareThree(bodies) ==
    \E data \in bodies :
       \E faults \in BkFaultSets(data, <<"marian", "google", "chatgpt">>) :
          BkServe("/compare-three", data, faults)

BkPostCompareCustom(bodies) ==
    \E data \in bodies :
       \E faults \in BkFaultSets(data, Get(data[2], "models", <<>>)) :
          BkServe("/compare-custom", data, faults)

(* ---------------------------------------------------------------------- *)
(* Spec: translation_server.py on a host without CUDA, requests for        *)
(* French, every route.                                                    *)
(* ---------------------------------------------------------------------- *)

\* What can go wrong while the models are preloaded
PreloadFaults == {"google_init", "m2m100_load", "madlad_load"}

\* The languages whose MarianMT model the preload may fail to load
FlakyLangs == {"french"}

Bodies == Malformed \cup BasicBodies({"french"})

Init == InitOn({FALSE})

Preload == PreloadWith(SUBSET PreloadFaults, FlakyLangs)

Next ==
    \/ Preload
    \/ PostTranslate(Bodies \cup TranslateBodies)
    \/ PostTranslateM2M100(Bodies)
    \/ PostTranslateMadlad(Bodies)
    \/ PostTranslateGoogle(Bodies)
    \/ PostTranslateChatGPT(Bodies)
    \/ PostCompare(Bodies)
    \/ PostCompareThree(Bodies)
    \/ PostCompareCustom(Bodies \cup CustomBodies)

Spec == Init /\ [][Next]_vars

(* ---------------------------------------------------------------------- *)
(* SpecBackup: translation_server_backup.py, every comparison route.       *)
(* ---------------------------------------------------------------------- *)

BkRequestIds == {"marian", "chatgpt", "doesnotexist"}

BkModelLists == UNION {[1..n -> BkRequestIds] : n \in 0..MaxModels}

BkBodies ==
    Malformed
    \cup {Dict([text |-> t, targetLanguage |-> l]) :
             t \in Texts, l \in {"french", "klingon"}}
    \cup {Dict([text |-> Str(<<"h", "i">>)])}

BkTranslateBodies ==
    {Dict([text |-> Str(<<"h", "i">>), targetLanguage |-> "french",
           model |-> "google"])}

BkCustomBodies ==
    {Dict([text |-> Str(<<"h", "i">>), targetLanguage |-> "french",
           models |-> ms]) : ms \in BkModelLists}

\* The backup module builds no service object; svc is never read.
InitBackup ==
    /\ phase = "backup"
    /\ cuda_available = FALSE
    /\ svc = NewService
    /\ req = NoRequest
    /\ resp = NoResponse
    /\ calls = <<>>
    /\ ThreadsOff /\ PairsOff /\ RepeatOff

NextBackup ==
    \/ BkPostTranslate(BkBodies \cup BkTranslateBodies)
    \/ BkPostTranslateChatGPT(BkBodies)
    \/ BkPostCompare(BkBodies)
    \/ BkPostCompareThree(BkBodies)
    \/ BkPostCompareCustom(BkBodies \cup BkCustomBodies)

SpecBackup == InitBackup /\ [][NextBackup]_vars


(* ---------------------------------------------------------------------- *)
(* SpecThreads: translation_server.py under app.run(threaded=True).  Every *)
(* request has a thread of its own, the comparison routes hand their       *)
(* backend calls to the threads of a ThreadPoolExecutor, and all of them   *)
(* share the one TranslationService.  A step is what a thread does between *)
(* two points where another thread can run.                                *)
(* ---------------------------------------------------------------------- *)

ThreadText == Str(<<"h", "i">>)

ThreadLanguage == "french"

\* The `models` lists of the /compare-custom requests of this specification
ThreadModelLists ==
    {<<"marian", "marian">>, <<"google", "marian">>, <<"doesnotexist", "google">>}

\* The backends a route calls, in the order it submits them
TasksOf(endpoint, models) ==
    CASE endpoint = "/translate"      -> <<"marian">>
      [] endpoint = "/compare"        -> <<"marian", "google">>
      [] endpoint = "/compare-three"  -> <<"marian", "m2m100", "madlad">>
      [] endpoint = "/compare-custom" -> Submitted(models)

\* n of `translation_service.translation_count += n`
IncrementOf(endpoint, models) ==
    CASE endpoint = "/translate"      -> 1
      [] endpoint = "/compare"        -> 2
      [] endpoint = "/compare-three"  -> 3
      [] endpoint = "/compare-custom" -> Len(models)

NoTaskResult == Failed("", 0, "not finished")

\* A call of translate_with_<model> in a thread, before its first step
NewTask(model) == [model |-> model, pc |-> "call", result |-> NoTaskResult]

IdleHandler ==
    [pc |-> "idle", endpoint |-> "none", models |-> <<>>, tasks |-> <<>>,
     futures |-> EmptyDict, results |-> EmptyDict, finished |-> <<>>,
     tmp |-> 0, resp |-> NoResponse]

RECURSIVE FuturesOf(_, _, _)
\* futures[model] = executor.submit(...): the index of the task last
\* submitted for the id, at the position of the id's first submission
FuturesOf(tasks, n, futures) ==
    IF n > Len(tasks) THEN futures
    ELSE FuturesOf(tasks, n + 1, SetItem(futures, tasks[n].model, n))

\* The backends whose state is loaded on first use, and the key of `loads`
LoadKey(model) == IF model = "marian" THEN "marian_models" ELSE "google_translator"

\* A request passes validation and its route submits its tasks.  Requests
\* are numbered in the order they arrive.
Begin(h, endpoint, models) ==
    /\ phase = "threads"
    /\ handlers[h].pc = "idle"
    /\ \A g \in 1..(h - 1) : handlers[g].pc # "idle"
    /\ LET names == TasksOf(endpoint, models)
           tasks == [n \in 1..Len(names) |-> NewTask(names[n])]
       IN  handlers' = [handlers EXCEPT ![h] =
              [IdleHandler EXCEPT !.pc = "collect", !.endpoint = endpoint,
                                  !.models = models, !.tasks = tasks,
                                  !.futures = FuturesOf(tasks, 1, EmptyDict)]]
    /\ UNCHANGED <<phase, cuda_available, svc, req, resp, calls, loads,
                   pair, fixed, first>>

\* The task t of handler h ends with `result`.
Finish(h, t, result) ==
    [handlers EXCEPT ![h].tasks[t].pc = "done",
                     ![h].tasks[t].result = result,
                     ![h].finished = Append(@, t)]

\* `if target_language not in self.marian_models`, `if self.google_translator
\* is None`: is the state the backend loads on first use there?
Present(model, s) ==
    CASE model = "marian" -> ThreadLanguage \in DOMAIN s.marian_models
      [] model = "google" -> ~IsNone(s.google_translator)
      [] OTHER -> TRUE

\* The service once the backend's state is loaded and stored
Loaded(model, s) ==
    IF model = "marian"
    THEN [s EXCEPT !.marian_models =
            (ThreadLanguage :>
               [model_name |-> get_marian_model_name(ThreadLanguage),
                device |-> IF cuda_available THEN s.device ELSE "cpu"]) @@ @]
    ELSE [s EXCEPT !.google_translator = Str("Translator")]

\* The translation itself, to the return of the call: it reads the loaded
\* state and writes nothing the threads share.
Generate(h, t, s) ==
    \E faults \in {{}, FaultsOf(handlers[h].tasks[t].model)} :
       handlers' = Finish(h, t,
          Invoke(handlers[h].tasks[t].model, s, ThreadText, ThreadLanguage,
                 faults).result)

\* The call tests for the loaded state; with the state there it translates,
\* without it it goes on to load.
TaskCheck(h, t) ==
    LET task == handlers[h].tasks[t] IN
    /\ task.pc = "call"
    /\ IF Present(task.model, svc)
       THEN Generate(h, t, svc)
       ELSE handlers' = [handlers EXCEPT ![h].tasks[t].pc = "load"]
    /\ UNCHANGED <<svc, loads>>

\* from_pretrained(...) and the store into self.marian_models; Translator()
\* and the store into self.google_translator; then the translation.  What
\* the load raises ends the call with a failed result.
TaskLoad(h, t) ==
    LET task == handlers[h].tasks[t] IN
    /\ task.pc = "load"
    /\ \/ /\ svc' = Loaded(task.model, svc)
          /\ loads' = [loads EXCEPT ![LoadKey(task.model)] = @ + 1]
          /\ Generate(h, t, Loaded(task.model, svc))
       \/ /\ handlers' = Finish(h, t,
                IF task.model = "marian"
                THEN Failed("MarianMT", Elapsed, "marian model load failed")
                ELSE Failed("Google Translate", Elapsed, "translator init failed"))
          /\ UNCHANGED <<svc, loads>>

\* One step of a call
TaskStep(h, t) ==
    /\ phase = "threads"
    /\ \/ TaskCheck(h, t)
       \/ TaskLoad(h, t)
    /\ UNCHANGED <<phase, cuda_available, req, resp, calls, pair, fixed, first>>

RECURSIVE ResultsInOrder(_, _, _, _)
\* results[model] = future.result() for every id of `order`
ResultsInOrder(hd, order, n, results) ==
    IF n > Len(order) THEN results
    ELSE ResultsInOrder(hd, order, n + 1,
            SetItem(results, order[n],
                    hd.tasks[GetItem(hd.futures, order[n])].result))

\* The futures read as they complete: the ids of the futures in the order
\* their tasks finished
FuturesAsCompleted(hd) ==
    LET kept == SelectSeq(hd.finished,
                   LAMBDA t : GetItem(hd.futures, hd.tasks[t].model) = t)
    IN  [n \in 1..Len(kept) |-> hd.tasks[kept[n]].model]

\* The order the route reads its futures in: futures.items()
FutureOrder(hd) == hd.futures.keys

\* Every task of the pool has ended: what future.result() of the last
\* running task and __exit__ of the `with ThreadPoolExecutor(...)` block
\* (shutdown(wait=True)) wait for
ExecutorExit(hd) == \A t \in 1..Len(hd.tasks) : hd.tasks[t].pc = "done"

\* The route reads every future and leaves the with block, then reads
\* translation_count: `+= n` is a read, an addition and a write, and
\* another thread can run between the read and the write.
CollectResult(h) ==
    LET hd == handlers[h] IN
    /\ phase = "threads"
    /\ hd.pc = "collect"
    /\ ExecutorExit(hd)
    /\ handlers' = [handlers EXCEPT
          ![h].results = ResultsInOrder(hd, FutureOrder(hd), 1, EmptyDict),
          ![h].tmp = svc.translation_count,
          ![h].pc = "respond"]
    /\ UNCHANGED <<phase, cuda_available, svc, req, resp, calls, loads,
                   pair, fixed, first>>

\* What the route returns once its results are in
ThreadResponse(hd) ==
    CASE hd.endpoint = "/compare-custom" ->
            [code |-> 200, kind |-> "compare_custom",
             body |-> [selected_models |-> hd.models,
                       results |-> hd.results,
                       successful_models |-> SuccessfulOf(hd.results),
                       success_rate |-> success_rate(SuccessfulOf(hd.results),
                                                     hd.models, hd.results)],
             escaped |-> FALSE]
      [] hd.endpoint = "/compare-three" ->
            [code |-> 200, kind |-> "compare_three",
             body |-> [results |-> hd.results,
                       successful_models |-> SuccessfulOf(hd.results)],
             escaped |-> FALSE]
      [] hd.endpoint = "/compare" ->
            IF Len(SuccessfulOf(hd.results)) = 2
            THEN [code |-> 200, kind |-> "compare",
                  body |-> [results |-> hd.results], escaped |-> FALSE]
            ELSE [code |-> 500, kind |-> "error",
                  body |-> ErrorBody("object of type 'NoneType' has no len()"),
                  escaped |-> FALSE]
      [] hd.endpoint = "/translate" ->
            [code |-> StatusCode(hd.results.val[1]), kind |-> "result",
             body |-> hd.results.val[1], escaped |-> FALSE]

\* The write of translation_count += n, and the response
CountWrite(h) ==
    LET hd == handlers[h] IN
    /\ phase = "threads"
    /\ hd.pc = "respond"
    /\ svc' = [svc EXCEPT !.translation_count =
                  hd.tmp + IncrementOf(hd.endpoint, hd.models)]
    /\ handlers' = [handlers EXCEPT ![h].pc = "done",
                                    ![h].resp = ThreadResponse(hd)]
    /\ UNCHANGED <<phase, cuda_available, req, resp, calls, loads,
                   pair, fixed, first>>

\* The service as the preload left it, with every model loaded or with the
\* Google translator and the French MarianMT model missing, and no request
InitThreads ==
    /\ phase = "threads"
    /\ cuda_available = FALSE
    /\ \E faults \in {{}, {"google_init"}} :
          svc = preload_all_models(NewService, faults,
                   IF faults = {} THEN {} ELSE {ThreadLanguage})
    /\ req = NoRequest
    /\ resp = NoResponse
    /\ calls = <<>>
    /\ handlers = [h \in 1..MaxThreads |-> IdleHandler]
    /\ loads = [k \in {"marian_models", "google_translator"} |-> 0]
    /\ PairsOff /\ RepeatOff

NextThreads ==
    \/ \E h \in 1..MaxThreads : Begin(h, "/translate", <<>>)
    \/ \E h \in 1..MaxThreads : Begin(h, "/compare", <<>>)
    \/ \E h \in 1..MaxThreads : Begin(h, "/compare-three", <<>>)
    \/ \E h \in 1..MaxThreads : \E models \in ThreadModelLists :
          Begin(h, "/compare-custom", models)
    \/ \E h \in 1..MaxThreads : \E t \in 1..Len(handlers[h].tasks) :
          TaskStep(h, t)
    \/ \E h \in 1..MaxThreads : CollectResult(h)
    \/ \E h \in 1..MaxThreads : CountWrite(h)

SpecThreads == InitThreads /\ [][NextThreads]_vars

(* ---------------------------------------------------------------------- *)
(* SpecPairs: the pairwise metrics as functions of two successful results, *)
(* applied to the results in both orders.                                  *)
(* ---------------------------------------------------------------------- *)

\* Translations that differ in nothing, in case, in surrounding blanks, in
\* length, and in content
PairTexts == {<<"a">>, <<"A">>, <<" ", "a">>, <<"a", "b">>, <<"b">>}

\* Latencies, in 1/10000 s
PairLatencies == {1, 6, 16}

PairResult(model, translation, latency) ==
    [Success(model, translation) EXCEPT !.latency = latency]

InitPairs ==
    /\ phase = "pairs"
    /\ cuda_available = FALSE
    /\ svc = NewService
    /\ req = NoRequest
    /\ resp = NoResponse
    /\ calls = <<>>
    /\ ThreadsOff /\ RepeatOff
    /\ \E ta \in PairTexts, tb \in PairTexts,
          la \in PairLatencies, lb \in PairLatencies :
          pair = [a |-> PairResult("MarianMT", ta, la),
                  b |-> PairResult("Google Translate", tb, lb),
                  by |-> "none", out |-> <<>>]

\* The metrics of (a, b) and of (b, a) as the operator `by` computes them
Compared(by, ab, ba) ==
    /\ phase = "pairs"
    /\ pair.by = "none"
    /\ pair' = [pair EXCEPT !.by = by, !.out = <<ab, ba>>]
    /\ UNCHANGED <<phase, cuda_available, svc, req, resp, calls, handlers,
                   loads, fixed, first>>

\* /compare of translation_server.py
ComparePair ==
    Compared("compare_two_models",
             TwoModelComparison(pair.a, pair.b),
             TwoModelComparison(pair.b, pair.a))

\* /compare and /compare-three of translation_server_backup.py
BkComparePair ==
    Compared("compare_translations",
             BkPair(pair.a.translation, pair.a.latency,
                    pair.b.translation, pair.b.latency),
             BkPair(pair.b.translation, pair.b.latency,
                    pair.a.translation, pair.a.latency))

NextPairs == ComparePair \/ BkComparePair

SpecPairs == InitPairs /\ [][NextPairs]_vars

(* ---------------------------------------------------------------------- *)
(* SpecRepeat: translation_server.py with backends whose outcome is a      *)
(* function of the request: the faults of the request-time loads and       *)
(* calls are drawn once, in `fixed`, and hold for every request.  `first`  *)
(* keeps, per request, the answer it got the first time, and whether the   *)
(* French MarianMT model was still to be loaded then.                      *)
(* ---------------------------------------------------------------------- *)

\* The faults a backend can have for good
RepeatFaults == FaultsOfAll(<<"marian", "google">>)

RepeatModelLists == {<<"marian">>, <<"google">>, <<"google", "marian">>}

RepeatBodies ==
    {Dict([text |-> Str(<<"h", "i">>), targetLanguage |-> "french",
           models |-> ms]) : ms \in RepeatModelLists}

\* translation and status of a result
Outcome(result) == <<result.translation, result.status>>

\* translation and status of every backend of a response
Answers(response) ==
    CASE response.kind = "compare_custom" ->
            [keys |-> response.body.results.keys,
             val  |-> [i \in 1..Len(response.body.results.val) |->
                          Outcome(response.body.results.val[i])]]
      [] response.kind = "result" ->
            [keys |-> <<"result">>, val |-> <<Outcome(response.body)>>]
      [] OTHER -> [keys |-> <<>>, val |-> <<>>]

InitRepeat ==
    /\ phase = "init"
    /\ cuda_available = FALSE
    /\ svc = NewService
    /\ req = NoRequest
    /\ resp = NoResponse
    /\ calls = <<>>
    /\ ThreadsOff /\ PairsOff
    /\ fixed \in SUBSET RepeatFaults
    /\ first = <<>>

\* One request, answered by backends with the faults `fixed`
Repeatable(endpoint, data, out) ==
    /\ Handle(endpoint, data, fixed, out)
    /\ first' = IF <<endpoint, data>> \in DOMAIN first
                THEN [first EXCEPT ![<<endpoint, data>>].again = TRUE]
                ELSE (<<endpoint, data>> :>
                         [answers |-> Answers(out.resp),
                          cold |-> "french" \notin DOMAIN svc.marian_models,
                          again |-> FALSE]) @@ first
    /\ UNCHANGED <<handlers, loads, pair, fixed>>

\* /translate with MarianMT, the default, and with Google Translate
RepeatTranslateBodies ==
    {Dict([text |-> Str(<<"h", "i">>), targetLanguage |-> "french"]),
     Dict([text |-> Str(<<"h", "i">>), targetLanguage |-> "french",
           model |-> "google"])}

\* What can go wrong while the models are preloaded, the request-time
\* faults apart
RepeatPreload == PreloadWith({{}, {"google_init"}}, FlakyLangs)

RepeatTranslate ==
    \E data \in RepeatTranslateBodies :
       Repeatable("/translate", data, translate(svc, data, fixed))

RepeatCompareCustom ==
    \E data \in RepeatBodies :
       Repeatable("/compare-custom", data, compare_custom_models(svc, data, fixed))

NextRepeat ==
    \/ RepeatPreload
    \/ RepeatTranslate
    \/ RepeatCompareCustom

SpecRepeat == InitRepeat /\ [][NextRepeat]_vars

(* ---------------------------------------------------------------------- *)
(* SpecService: the methods of TranslationService called one after the     *)
(* other on one service, on a host without CUDA: the preload as __init__   *)
(* runs it, and the translate_with_* of the routes.  `loads` keeps,        *)
(* per backend state, whether a load attempt for it has failed.            *)
(* ---------------------------------------------------------------------- *)

ServiceText == Str(<<"h", "i">>)

\* Target languages: in the tables, in another case, in no table
ServiceLanguages == {"french", "French", "klingon"}

\* The backend states that are loaded: a MarianMT cache key per language
\* string, and the three single models
LoadKeys == ServiceLanguages \cup {"google", "m2m100", "madlad"}

\* The test at the head of load_*: does a load call for the key start a
\* load on service s?
Absent(s, k) ==
    CASE k = "google" -> IsNone(s.google_translator)
      [] k = "m2m100" -> IsNone(s.m2m100_model)
      [] k = "madlad" -> IsNone(s.madlad_model)
      [] OTHER        -> k \notin DOMAIN s.marian_models

\* The keys for which a call that runs the load_* of the keys `touched` on
\* service s starts a load attempt
Attempted(touched, s) == {k \in touched : Absent(s, k)}

\* `loads` after such a call took the service from s to t
Accounted(touched, s, t) ==
    [k \in LoadKeys |-> loads[k] \/ (k \in Attempted(touched, s) /\ Absent(t, k))]

\* A method of the service was called: the service after it, what it
\* returned, and the loads it ran.
Called(method, target_language, faults, t, result, touched) ==
    /\ phase = "service"
    /\ svc' = t
    /\ loads' = Accounted(touched, svc, t)
    /\ req' = [server |-> "service", endpoint |-> method,
               data |-> Dict([text |-> ServiceText,
                              targetLanguage |-> target_language]),
               faults |-> faults, touched |-> touched]
    /\ resp' = [code |-> 0, kind |-> "returned", body |-> result,
                escaped |-> FALSE]
    /\ UNCHANGED <<phase, cuda_available, calls, handlers, pair, fixed, first>>

\* What can go wrong in a load on a CUDA host: the move of the model to
\* the GPU runs out of memory
CudaFaults == {"m2m100_oom", "madlad_oom"}

\* preload_all_models is called by __init__ alone, on the new service.
CallPreload ==
    /\ svc = NewService
    /\ \E faults \in SUBSET (PreloadFaults \cup
                                (IF cuda_available THEN CudaFaults ELSE {})),
          failing \in SUBSET FlakyLangs :
          LET t == preload_all_models(svc, faults, failing) IN
          Called("preload_all_models", "french", faults \cup failing, t,
                 Dict(t.models_loaded),
                 {"google", "french", "m2m100", "madlad"})

CallLoadM2M100 ==
    \E faults \in SUBSET ({"m2m100_load"} \cup
                             (IF cuda_available THEN {"m2m100_oom"} ELSE {})) :
       LET t == load_m2m100_model(svc, faults) IN
       Called("load_m2m100_model", "french", faults, t, None, {"m2m100"})

CallLoadMadlad ==
    \E faults \in SUBSET ({"madlad_load"} \cup
                             (IF cuda_available THEN {"madlad_oom"} ELSE {})) :
       LET t == load_madlad_model(svc, faults) IN
       Called("load_madlad_model", "french", faults, t, None, {"madlad"})

\* The loads a translate_with_* runs: load_marian_model of the language,
\* load_google_translator, none
LoadsOf(model, target_language) ==
    CASE model = "marian" -> {target_language}
      [] model = "google" -> {"google"}
      [] OTHER            -> {}

CallTranslate(models, languages) ==
    \E model \in models, target_language \in languages :
       \E faults \in SUBSET FaultsOf(model) :
          LET out == Invoke(model, svc, ServiceText, target_language, faults) IN
          Called(model, target_language, faults, out.svc, Dict(out.result),
                 LoadsOf(model, target_language))

InitService(cuda) ==
    /\ phase = "service"
    /\ cuda_available = cuda
    /\ svc = NewService
    /\ req = NoRequest
    /\ resp = NoResponse
    /\ calls = <<>>
    /\ handlers = <<>>
    /\ loads = [k \in LoadKeys |-> FALSE]
    /\ PairsOff /\ RepeatOff

InitHost == InitService(FALSE)

NextService ==
    \/ CallPreload
    \/ CallTranslate(model_functions, ServiceLanguages)

SpecService == InitHost /\ [][NextService]_vars

(* ---------------------------------------------------------------------- *)
(* SpecDevice: the service on a CUDA host, MarianMT for French and the     *)
(* loads of M2M-100 and MADLAD-400.                                        *)
(* ---------------------------------------------------------------------- *)

NextDevice ==
    \/ CallPreload
    \/ CallLoadM2M100
    \/ CallLoadMadlad
    \/ CallTranslate({"marian"}, {"french"})

InitDevice == InitService(TRUE)

SpecDevice == InitDevice /\ [][NextDevice]_vars

(* ---------------------------------------------------------------------- *)
(* Properties                                                              *)
(* ---------------------------------------------------------------------- *)

Range(seq) == {seq[i] : i \in 1..Len(seq)}

\* The last request went to `endpoint` of translation_server.py
OnMain(endpoint) == req.server = "main" /\ req.endpoint = endpoint

OnBackup(endpoint) == req.server = "backup" /\ req.endpoint = endpoint

\* text and models as the route reads them from the last request's body
ReqText == Get(req.data[2], "text", Str(<<>>))

ReqModels == Get(req.data[2], "models", <<"marian", "m2m100">>)

\* The last request to /compare-custom passed validation
CustomAccepted ==
    /\ OnMain("/compare-custom")
    /\ IsObject(req.data)
    /\ Truthy(ReqText)
    /\ Len(ReqModels) > 0

\* C1: in every /compare-custom response the keys of results are exactly
\* the requested ids and len(results) = len(models), unknown ids included.
C1_ResultsKeysAreRequestedIds ==
    CustomAccepted =>
        /\ resp.kind = "compare_custom"
        /\ KeySet(resp.body.results) = Range(ReqModels)
        /\ Len(resp.body.results.keys) = Len(ReqModels)

\* C2: a requested id that is no known backend gets a failed entry with
\* error 'Unknown model: <id>' under that id, no task is submitted for it,
\* and the tasks of the known ids are the ones submitted.
C2_UnknownIdGetsFailedEntry ==
    CustomAccepted =>
        /\ resp.kind = "compare_custom"
        /\ \A id \in Range(ReqModels) \ model_functions :
              /\ HasKey(resp.body.results, id)
              /\ GetItem(resp.body.results, id).status = "failed"
              /\ GetItem(resp.body.results, id).error =
                    Str("Unknown model: " \o id)
              /\ \A i \in 1..Len(calls) : calls[i].adapter # id
        /\ [i \in 1..Len(calls) |-> calls[i].adapter] = Submitted(ReqModels)

\* The number of entries of a results dict whose status is "success"
SuccessCount(results) ==
    Cardinality({i \in 1..Len(results.val) : results.val[i].status = "success"})

\* C3: the success_rate of /compare-custom and of /compare-three is the
\* number of success entries of results divided by len(results).
C3_SuccessRateOverResults ==
    /\ (/\ CustomAccepted
        /\ resp.kind = "compare_custom"
        /\ Len(resp.body.results.keys) > 0) =>
          resp.body.success_rate =
             Div(SuccessCount(resp.body.results), Len(resp.body.results.keys))
    /\ OnMain("/compare-three") /\ resp.kind = "compare_three" =>
          resp.body.comparison.success_rate =
             Div(SuccessCount(resp.body.results), Len(resp.body.results.keys))

\* C4: the success_rate of /compare-custom is len(successful_models) over
\* len(models), models being the list as requested; an id that resolved to
\* no backend is in the denominator and not among the successful.
C4_SuccessRateOverRequested ==
    CustomAccepted /\ resp.kind = "compare_custom" =>
        /\ resp.body.selected_models = ReqModels
        /\ resp.body.success_rate =
              Div(Len(resp.body.successful_models), Len(ReqModels))
        /\ Range(resp.body.successful_models) =
              {id \in Range(ReqModels) :
                  /\ id \in model_functions
                  /\ GetItem(resp.body.results, id).status = "success"}
        /\ \A i, j \in 1..Len(resp.body.successful_models) :
              i # j => resp.body.successful_models[i] #
                       resp.body.successful_models[j]

\* A /compare-custom response for one unknown id and one id that succeeded
C4_UnknownIdCounted ==
    /\ CustomAccepted /\ resp.kind = "compare_custom"
    /\ Range(ReqModels) \ model_functions # {}
    /\ Len(resp.body.successful_models) = 1
    /\ resp.body.success_rate = <<1, 2>>

\* The last request asked a comparison route for a non-empty text
ComparisonAsked ==
    /\ req.server = "main"
    /\ req.endpoint \in {"/compare", "/compare-three", "/compare-custom"}
    /\ IsObject(req.data)
    /\ Truthy(ReqText)
    /\ req.endpoint = "/compare-custom" => Len(ReqModels) > 0

\* C5: a comparison request with a non-empty text is answered 200 with a
\* body holding the entry of every backend invoked, whatever backends failed.
C5_ComparisonAnswers200 ==
    ComparisonAsked =>
        /\ resp.code = 200
        /\ resp.kind \in {"compare", "compare_three", "compare_custom"}
        /\ resp.kind = "compare" =>
              {calls[i].adapter : i \in 1..Len(calls)} = {"marian", "google"}
        /\ resp.kind \in {"compare_three", "compare_custom"} =>
              {calls[i].adapter : i \in 1..Len(calls)} = KeySet(resp.body.results)

ResultObjects ==
    CASE resp.kind = "result"  -> <<resp.body>>
      [] resp.kind = "compare" -> <<resp.body.marian, resp.body.google>>
      [] resp.kind \in {"compare_three", "compare_custom"} ->
            resp.body.results.val
      [] OTHER -> <<>>

WellFormed(r) ==
    /\ r.status \in {"success", "failed"}
    /\ r.status = "success" <=> ~IsNone(r.translation)
    /\ r.status = "failed" <=> (IsNone(r.translation) /\ ~IsNone(r.error))

\* C7: every result object a route of translation_server.py returns has
\* status "success" exactly when its translation is not None, and status
\* "failed" exactly when its translation is None and its error is not None.
C7_ResultsWellFormed ==
    req.server = "main" =>
        \A i \in 1..Len(ResultObjects) : WellFormed(ResultObjects[i])

\* A /compare-three response holding a success and a failed result
C7_MixedResults ==
    /\ OnMain("/compare-three")
    /\ resp.kind = "compare_three"
    /\ \E i, j \in 1..Len(ResultObjects) :
          /\ ResultObjects[i].status = "success"
          /\ ResultObjects[j].status = "failed"

\* C8: when the ChatGPT call of the backup server fails, the chatgpt entry
\* of results in /compare-three and /compare-custom is failed with
\* translation None and an error, and chatgpt is not among successful_models.
C8_ChatGPTFailureIsFailedEntry ==
    (/\ req.server = "backup"
     /\ resp.kind \in {"compare_three", "compare_custom"}
     /\ req.faults \cap {"chatgpt_call", "chatgpt_empty"} # {}
     /\ \E i \in 1..Len(calls) : calls[i].adapter = "chatgpt") =>
        LET entry == GetItem(resp.body.results, "chatgpt")
            successful_models ==
                IF resp.kind = "compare_custom"
                THEN resp.body.successful_models
                ELSE resp.body.comparison.successful_models
        IN  /\ entry.status = "failed"
            /\ IsNone(entry.translation)
            /\ "chatgpt" \notin Range(successful_models)

\* The request r has no text, or is a /compare-custom request for no model
EmptyRequest(r) ==
    /\ r.server = "main"
    /\ IsObject(r.data)
    /\ \/ ~Truthy(Get(r.data[2], "text", Str(<<>>)))
       \/ /\ r.endpoint = "/compare-custom"
          /\ Len(Get(r.data[2], "models", <<"marian", "m2m100">>)) = 0

\* C9: a request without text, and a /compare-custom request with an empty
\* models list, is answered 400 with an error body, calls no adapter and
\* leaves translation_count, the model caches and models_loaded as they were.
C9_EmptyRequestRejected ==
    [][EmptyRequest(req') =>
          /\ resp'.code = 400
          /\ resp'.kind \in {"result", "error"}
          /\ ~IsNone(resp'.body.error)
          /\ calls' = <<>>
          /\ svc' = svc]_vars

\* A /compare-custom request for no model, rejected after translations
\* had been counted
C9_EmptyModelsRejected ==
    /\ EmptyRequest(req)
    /\ req.endpoint = "/compare-custom"
    /\ Truthy(ReqText)
    /\ resp.code = 400
    /\ calls = <<>>
    /\ svc.translation_count > 0

\* C10: a request whose body is no JSON object is answered 400 with an
\* error body, no backend is invoked and no exception leaves the handler.
C10_MalformedBodyRejected ==
    (req.server = "main" /\ ~IsObject(req.data)) =>
        /\ resp.code = 400
        /\ calls = <<>>
        /\ ~resp.escaped

\* The requests of SpecThreads that were answered, and the comparison routes
Responded(h) == handlers[h].pc = "done"

Comparison(h) ==
    handlers[h].endpoint \in {"/compare", "/compare-three", "/compare-custom"}

\* C11: a comparison response is assembled only after every task submitted
\* for the request has ended, one task was submitted per requested known
\* backend, and the result of every ended task is in the response.
C11_ResponseHoldsEveryTaskResult ==
    \A h \in 1..MaxThreads :
       (Responded(h) /\ Comparison(h)) =>
          /\ ExecutorExit(handlers[h])
          /\ \A t \in 1..Len(handlers[h].tasks) :
                /\ HasKey(handlers[h].results, handlers[h].tasks[t].model)
                /\ GetItem(handlers[h].results, handlers[h].tasks[t].model)
                      = handlers[h].tasks[t].result

(* ---------------------------------------------------------------------- *)
(* SpecHang: one comparison request whose Google call may never return.    *)
(* self.google_translator.translate(...) is a network call made without a  *)
(* timeout, and no future.result() of the routes passes one.  The          *)
(* scheduler runs every thread that can take a step, hence the weak        *)
(* fairness of each step; a call that hangs has no step left.              *)
(* ---------------------------------------------------------------------- *)

\* The Google call of task t of handler h does not return.
TaskHang(h, t) ==
    LET task == handlers[h].tasks[t] IN
    /\ phase = "threads"
    /\ task.model = "google"
    /\ task.pc = "call"
    /\ Present(task.model, svc)
    /\ handlers' = [handlers EXCEPT ![h].tasks[t].pc = "hung"]
    /\ UNCHANGED <<phase, cuda_available, svc, req, resp, calls, loads,
                   pair, fixed, first>>

NextHang ==
    \/ Begin(1, "/compare", <<>>)
    \/ \E models \in ThreadModelLists : Begin(1, "/compare-custom", models)
    \/ \E t \in 1..Len(handlers[1].tasks) : TaskStep(1, t)
    \/ \E t \in 1..Len(handlers[1].tasks) : TaskHang(1, t)
    \/ CollectResult(1)
    \/ CountWrite(1)

SpecHang == InitThreads /\ [][NextHang]_vars /\ WF_vars(NextHang)

\* C12: a comparison request is always eventually answered, also when one
\* of its backends never returns.
C12_ComparisonEventuallyAnswered ==
    (handlers[1].pc = "collect") ~> Responded(1)

\* C13: under every interleaving of the calls that make the first use of a
\* MarianMT language or of the Google translator, the load runs at most
\* once per cache key.
C13_LoadRunsOnce == \A k \in DOMAIN loads : loads[k] <= 1

RECURSIVE Increments(_)
\* The sum of the increments of the answered requests 1..h
Increments(h) ==
    IF h = 0 THEN 0
    ELSE Increments(h - 1) +
         (IF Responded(h)
          THEN IncrementOf(handlers[h].endpoint, handlers[h].models) ELSE 0)

\* C14: once every request has finished, translation_count is its initial
\* value, 0, plus the sum of the increments of the requests.
C14_NoIncrementLost ==
    (phase = "threads" /\ \A h \in 1..MaxThreads : handlers[h].pc \in {"idle", "done"})
       => svc.translation_count = Increments(MaxThreads)

\* C15: the pairwise metrics of two successful results are symmetric:
\* (A, B) and (B, A) have the same are_same, and length_diff and speed_diff
\* of the one order are the negations of those of the other.
C15_PairMetricsSymmetric ==
    (phase = "pairs" /\ pair.by # "none") =>
        /\ pair.out[1].are_same = pair.out[2].are_same
        /\ pair.out[1].length_diff = -pair.out[2].length_diff
        /\ pair.out[1].speed_diff = -pair.out[2].speed_diff

\* A translation as the comparison is to read it: trimmed and lower-cased
Normalized(translation) == LowerText(StripText(translation[2]))

\* C16: are_same is true exactly when the two translations are equal after
\* trimming surrounding whitespace and lower-casing.
C16_AreSameOnNormalizedText ==
    (phase = "pairs" /\ pair.by # "none") =>
        (pair.out[1].are_same <=>
            Normalized(pair.a.translation) = Normalized(pair.b.translation))

\* C17: when a backend of /compare returns a failed result, the response
\* carries the comparison as a note alone, without are_same, length_diff
\* and speed_diff; nothing is computed from a None translation.
C17_FailedPairGetsNote ==
    [][LET data  == req'.data
           text  == Get(data[2], "text", Str(<<>>))
           target_language == Get(data[2], "targetLanguage", "french")
           m == translate_with_marian(svc, text, target_language, req'.faults)
           g == translate_with_google(m.svc, text, target_language, req'.faults)
       IN  (/\ req'.server = "main"
            /\ req'.endpoint = "/compare"
            /\ IsObject(data)
            /\ Truthy(text)
            /\ "failed" \in {m.result.status, g.result.status}) =>
               /\ resp'.code = 200
               /\ resp'.kind = "compare"
               /\ DOMAIN resp'.body.comparison = {"note"}]_vars

RECURSIVE FirstOccurrences(_)
\* The ids of a list in the order of their first occurrence
FirstOccurrences(models) ==
    IF models = <<>> THEN <<>>
    ELSE LET front == FirstOccurrences(SubSeq(models, 1, Len(models) - 1))
             last  == models[Len(models)]
         IN  IF last \in Range(front) THEN front ELSE Append(front, last)

\* The ids whose entry in the response is a success
SuccessfulIds(body) ==
    {k \in KeySet(body.results) : GetItem(body.results, k).status = "success"}

\* C18: whatever order the tasks of a /compare-custom request finish in,
\* selected_models is the `models` list as sent and successful_models lists
\* the successful ids in the order of their first occurrence in `models`.
C18_ListsKeepRequestOrder ==
    \A h \in 1..MaxThreads :
       (Responded(h) /\ handlers[h].endpoint = "/compare-custom") =>
          LET body == handlers[h].resp.body IN
          /\ body.selected_models = handlers[h].models
          /\ body.successful_models =
                SelectSeq(FirstOccurrences(handlers[h].models),
                          LAMBDA k : k \in SuccessfulIds(body))

\* Google then MarianMT requested, MarianMT finished first, both successful
C18_LaterIdFinishedFirst ==
    \E h \in 1..MaxThreads :
       /\ Responded(h)
       /\ handlers[h].endpoint = "/compare-custom"
       /\ handlers[h].models = <<"google", "marian">>
       /\ handlers[h].finished = <<2, 1>>
       /\ handlers[h].resp.body.successful_models = <<"google", "marian">>

\* C19: with backends whose outcomes are fixed, a request that repeats an
\* earlier one gets the translation and the status of every backend that
\* the earlier one got, whatever the requests between them left behind.
C19_RepeatedRequestSameAnswers ==
    (phase = "serving" /\ <<req.endpoint, req.data>> \in DOMAIN first) =>
        Answers(resp) = first[<<req.endpoint, req.data>>].answers

\* A repeated /compare-custom request whose first answer loaded the French
\* MarianMT model and the Google translator, answered from the caches
C19_RepeatedAfterFirstUse ==
    /\ phase = "serving"
    /\ req.endpoint = "/compare-custom"
    /\ <<req.endpoint, req.data>> \in DOMAIN first
    /\ first[<<req.endpoint, req.data>>].again
    /\ first[<<req.endpoint, req.data>>].cold
    /\ "french" \in DOMAIN svc.marian_models
    /\ GetItem(resp.body.results, "marian").status = "success"

\* A rate n/d between 0 and 1
InUnitInterval(rate) == rate[2] > 0 /\ 0 <= rate[1] /\ rate[1] <= rate[2]

\* C20: every success_rate that /compare-three or /compare-custom returns
\* lies in [0, 1], for lists with unknown ids, repeated ids or no known id.
C20_SuccessRateInUnitInterval ==
    req.server = "main" =>
        /\ resp.kind = "compare_custom" => InUnitInterval(resp.body.success_rate)
        /\ resp.kind = "compare_three" =>
              InUnitInterval(resp.body.comparison.success_rate)

\* A repeated id whose translation succeeded: one success over two ids
C20_RepeatedIdRate ==
    /\ CustomAccepted
    /\ ReqModels = <<"marian", "marian">>
    /\ resp.body.successful_models = <<"marian">>
    /\ resp.body.success_rate = <<1, 2>>

\* C21: once a load attempt for a backend state has failed, no later call
\* of the service starts another load attempt for that state.
C21_NoLoadAfterFailedLoad ==
    [][\A k \in LoadKeys :
          (phase = "service" /\ loads[k]) =>
             k \notin Attempted(req'.touched, svc)]_vars

\* C22: loading M2M-100 or MADLAD-400 leaves unchanged the device that
\* translate_with_marian moves its inputs to.
C22_LoadLeavesDevice ==
    [][(phase = "service"
        /\ req'.endpoint \in {"load_m2m100_model", "load_madlad_model"}) =>
          svc'.device = svc.device]_vars

\* C23: a translate call for a target language that differs only in letter
\* case from a language MarianMT has in its cache uses that cache entry and
\* loads no model.
C23_CaseVariantUsesCacheEntry ==
    [][(/\ phase = "service"
        /\ req'.endpoint = "marian"
        /\ \E l \in DOMAIN svc.marian_models :
              Lower(l) = Lower(req'.data[2].targetLanguage)) =>
          svc'.marian_models = svc.marian_models]_vars

\* The translation of the last call, a provider's tag and the text, or None
LastResult == resp.body[2]

\* C24: for a target language in none of its tables every adapter follows
\* one policy: M2M-100 and MADLAD-400, when loaded, fail with 'Unsupported
\* language', MarianMT translates with its default model, and Google
\* Translate fails or is given a language code of its table, never the
\* caller's string.
C24_UnsupportedLanguagePolicy ==
    (/\ phase = "service"
     /\ req.endpoint \in model_functions
     /\ Lower(req.data[2].targetLanguage) \notin MarianLangs) =>
        /\ (req.endpoint = "m2m100" /\ ~IsNone(svc.m2m100_model)) =>
              /\ LastResult.status = "failed"
              /\ LastResult.error =
                    Str("Unsupported language: " \o req.data[2].targetLanguage)
        /\ (req.endpoint = "madlad" /\ ~IsNone(svc.madlad_model)) =>
              /\ LastResult.status = "failed"
              /\ LastResult.error =
                    Str("Unsupported language: " \o req.data[2].targetLanguage)
        /\ (req.endpoint = "marian" /\ LastResult.status = "success") =>
              Head(LastResult.translation[2]) = "Helsinki-NLP/opus-mt-en-mul"
        /\ (req.endpoint = "google" /\ LastResult.status = "success") =>
              Head(LastResult.translation[2]) \in
                 {LangCode(l) : l \in google_lang_codes}

SingleBackendRoutes ==
    {"/translate", "/translate-m2m100", "/translate-madlad",
     "/translate-google", "/translate-chatgpt"}

FiveFields == {"translation", "latency", "model", "status", "error"}

\* C25: a single-backend route answers 400 exactly when the text is empty,
\* otherwise 200 exactly when the result's status is 'success' and 500
\* exactly when it is 'failed', and its body is always a result with the
\* five fields.
C25_SingleBackendStatus ==
    (req.server = "main" /\ req.endpoint \in SingleBackendRoutes) =>
        /\ resp.kind = "result"
        /\ DOMAIN resp.body = FiveFields
        /\ IsObject(req.data) => (resp.code = 400 <=> ~Truthy(ReqText))
        /\ resp.code \in {200, 400, 500}
        /\ resp.code = 200 <=> resp.body.status = "success"

\* The same for the requests whose body is a JSON object
C25_OnObjectBodies ==
    (req.server = "main" /\ req.endpoint \in SingleBackendRoutes
        /\ IsObject(req.data)) =>
        /\ resp.kind = "result"
        /\ DOMAIN resp.body = FiveFields
        /\ resp.code = 400 <=> ~Truthy(ReqText)
        /\ resp.code \in {200, 400, 500}
        /\ resp.code = 200 <=> resp.body.status = "success"

\* C26: the readiness flags /health reports agree with the backends: the
\* flag of a MarianMT language is true exactly when marian_models holds its
\* model, the Google flag exactly when google_translator is set, the
\* M2M-100 and MADLAD-400 flags exactly when the model is not None.
C26_FlagsAgreeWithBackends ==
    phase = "service" =>
        /\ \A l \in MarianLangs \cup DOMAIN svc.marian_models :
              (/\ l \in DOMAIN svc.models_loaded.marian
               /\ svc.models_loaded.marian[l])
                 <=> l \in DOMAIN svc.marian_models
        /\ svc.models_loaded.google <=> ~IsNone(svc.google_translator)
        /\ svc.models_loaded.m2m100 <=> ~IsNone(svc.m2m100_model)
        /\ svc.models_loaded.madlad <=> ~IsNone(svc.madlad_model)

\* C27: a request raises translation_count by the number of backend
\* translate invocations it performed, failed ones included: 1 for a
\* single-backend route that reached its backend, and for /compare-custom
\* the number of tasks submitted.
C27_CountIsInvocations ==
    [][req'.server = "main" =>
          svc'.translation_count = svc.translation_count + Len(calls')]_vars

\* The same for every route but /translate-chatgpt and /compare-custom
C27_OnOtherRoutes ==
    [][(/\ req'.server = "main"
        /\ req'.endpoint \notin {"/translate-chatgpt", "/compare-custom"}) =>
          svc'.translation_count = svc.translation_count + Len(calls')]_vars

NotAvailable(model) ==
    Str(model \o " model not available (failed to load at startup)")

test_cases ==
    [museum_tour |-> <<Str(<<"m1">>), Str(<<"m2">>), Str(<<"m3">>),
                       Str(<<"m4">>), Str(<<"m5">>)>>,
     guided_tour |-> <<Str(<<"t1">>), Str(<<"t2">>), Str(<<"t3">>),
                       Str(<<"t4">>), Str(<<"t5">>)>>,
     general     |-> <<Str(<<"g1">>), Str(<<"g2">>), Str(<<"g3">>),
                       Str(<<"g4">>), Str(<<"g5">>)>>]

\* The string the except clauses of the loop store as the translation
FailedMark == Str(<<"Failed">>)

RECURSIVE SumSeq(_)
SumSeq(q) == IF q = <<>> THEN 0 ELSE Head(q) + SumSeq(Tail(q))

\* round(total / n, 3), total in 1/10000 s: the nearest multiple of 10 of
\* the quotient, a tie going to the even one
RoundMean(total, n) ==
    LET q  == total \div (10 * n)
        r  == total % (10 * n)
        up == IF 2 * r > 10 * n \/ (2 * r = 10 * n /\ q % 2 = 1)
              THEN q + 1 ELSE q
    IN  up * 10

\* [r[model]["latency"] for r in results if r[model]["translation"] != "Failed"]
RECURSIVE ValidLatencies(_, _)
ValidLatencies(results, model) ==
    IF results = <<>> THEN <<>>
    ELSE (IF Head(results)[model].translation # FailedMark
          THEN <<Head(results)[model].latency>> ELSE <<>>)
         \o ValidLatencies(Tail(results), model)

\* The "summary" of the answer
AudioSummary(results) ==
    LET valid_marian == ValidLatencies(results, "marian")
        valid_google == ValidLatencies(results, "google")
        sm == SumSeq(valid_marian)
        nm == IF valid_marian = <<>> THEN 1 ELSE Len(valid_marian)
        sg == SumSeq(valid_google)
        ng == IF valid_google = <<>> THEN 1 ELSE Len(valid_google)
    IN  [total_tests        |-> Len(results),
         avg_marian_latency |-> RoundMean(sm, nm),
         avg_google_latency |-> RoundMean(sg, ng),
         faster_model       |-> IF sm * ng < sg * nm /\ sm > 0
                                THEN "MarianMT" ELSE "Google Translate"]

AudioEntry(text, marian_translation, marian_time, google_translation, google_time) ==
    [original |-> text,
     marian   |-> [translation |-> marian_translation,
                   latency     |-> Round3(marian_time)],
     google   |-> [translation |-> google_translation,
                   latency     |-> Round3(google_time)]]

\* The faults that strike the call for the i-th text
AudioFaults(failing, i, fault) == IF i \in failing THEN {fault} ELSE {}

RECURSIVE AudioLoop(_, _, _, _, _, _, _)
\* for text in test_texts, translation_server.py: the translation and the
\* latency are read from the adapter's result.  run: the texts each backend
\* fails on and the time each call takes.
AudioLoop(s, test_texts, i, target_language, run, results, made) ==
    IF i > Len(test_texts)
    THEN [svc |-> s, results |-> results, calls |-> made]
    ELSE LET text == test_texts[i]
             m == translate_with_marian(s, text, target_language,
                     AudioFaults(run.marian_failing, i, "marian_generate"))
             g == translate_with_google(m.svc, text, target_language,
                     AudioFaults(run.google_failing, i, "google_call"))
             entry ==
                AudioEntry(text,
                   IF IsNone(m.raised) THEN m.result.translation ELSE FailedMark,
                   IF IsNone(m.raised) THEN run.marian_time[i] ELSE 0,
                   IF IsNone(g.raised) THEN g.result.translation ELSE FailedMark,
                   IF IsNone(g.raised) THEN run.google_time[i] ELSE 0)
         IN  AudioLoop(g.svc, test_texts, i + 1, target_language, run,
                       Append(results, entry),
                       made \o <<Call("marian", m), Call("google", g)>>)

\* /test-audio of translation_server.py
test_audio_translation(s, data, run) ==
    IF ~IsObject(data)
    THEN Out(s, 500, "error", ErrorBody(BodyError(data)), <<>>)
    ELSE LET target_language == Get(data[2], "targetLanguage", "french")
             test_case       == Get(data[2], "testCase", "museum_tour")
             test_texts      == Get(test_cases, test_case, test_cases["general"])
             l == AudioLoop(s, test_texts, 1, target_language, run, <<>>, <<>>)
         IN  Out(l.svc, 200, "test_audio",
                 [test_case |-> test_case, target_language |-> target_language,
                  results |-> l.results, summary |-> AudioSummary(l.results)],
                 l.calls)

RECURSIVE BkAudioLoop(_, _, _, _, _, _)
\* for text in test_texts, translation_server_backup.py: the adapters
\* return the translation or raise, and the handler takes the time.
BkAudioLoop(test_texts, i, target_language, run, results, made) ==
    IF i > Len(test_texts)
    THEN [results |-> results, calls |-> made]
    ELSE LET text == test_texts[i]
             m == bk_translate_with_marian(text, target_language,
                     AudioFaults(run.marian_failing, i, "marian_generate"))
             g == bk_translate_with_google(text, target_language,
                     AudioFaults(run.google_failing, i, "google_call"))
             entry ==
                AudioEntry(text,
                   IF IsNone(m.raised) THEN m.value ELSE FailedMark,
                   IF IsNone(m.raised) THEN run.marian_time[i] ELSE 0,
                   IF IsNone(g.raised) THEN g.value ELSE FailedMark,
                   IF IsNone(g.raised) THEN run.google_time[i] ELSE 0)
         IN  BkAudioLoop(test_texts, i + 1, target_language, run,
                         Append(results, entry),
                         made \o <<Call("marian", m), Call("google", g)>>)

\* /test-audio of translation_server_backup.py
bk_test_audio_translation(data, run) ==
    IF ~IsObject(data)
    THEN BkOut(500, "error", ErrorBody(BodyError(data)), <<>>)
    ELSE LET target_language == Get(data[2], "targetLanguage", "french")
             test_case       == Get(data[2], "testCase", "museum_tour")
             test_texts      == Get(test_cases, test_case, test_cases["general"])
             l == BkAudioLoop(test_texts, 1, target_language, run, <<>>, <<>>)
         IN  BkOut(200, "test_audio",
                   [test_case |-> test_case, target_language |-> target_language,
                    results |-> l.results, summary |-> AudioSummary(l.results)],
                   l.calls)

AudioBodies ==
    {None,
     Dict([targetLanguage |-> "french"]),
     Dict([targetLanguage |-> "french", testCase |-> "nosuchcase"])}

\* The times the five calls of a backend take, in 1/10000 s
AudioTimes == {<<20, 40, 60, 80, 100>>, <<15, 25, 35, 45, 56>>}

AudioRuns(data) ==
    IF ~IsObject(data)
    THEN {[marian_failing |-> {}, google_failing |-> {},
           marian_time |-> <<20, 40, 60, 80, 100>>,
           google_time |-> <<20, 40, 60, 80, 100>>]}
    ELSE [marian_failing : SUBSET (1..5), google_failing : SUBSET (1..5),
          marian_time : AudioTimes, google_time : AudioTimes]

InitAudio ==
    /\ phase = "audio"
    /\ cuda_available = FALSE
    /\ svc \in {preload_all_models(NewService, faults, {}) :
                   faults \in {{}, {"google_init"}}}
    /\ req = NoRequest
    /\ resp = NoResponse
    /\ calls = <<>>
    /\ ThreadsOff /\ PairsOff /\ RepeatOff

PostTestAudio ==
    /\ phase = "audio"
    /\ \E data \in AudioBodies : \E run \in AudioRuns(data) :
          LET out == test_audio_translation(svc, data, run)
          IN  /\ svc' = out.svc
              /\ resp' = out.resp
              /\ calls' = out.calls
              /\ req' = [server |-> "main", endpoint |-> "/test-audio",
                         data |-> data, faults |-> run]
    /\ phase' = "answered"
    /\ UNCHANGED cuda_available
    /\ UNCHANGED restVars

BkPostTestAudio ==
    /\ phase = "audio"
    /\ \E data \in AudioBodies : \E run \in AudioRuns(data) :
          LET out == bk_test_audio_translation(data, run)
          IN  /\ resp' = out.resp
              /\ calls' = out.calls
              /\ req' = [server |-> "backup", endpoint |-> "/test-audio",
                         data |-> data, faults |-> run]
    /\ phase' = "answered"
    /\ UNCHANGED <<cuda_available, svc>>
    /\ UNCHANGED restVars

NextAudio == PostTestAudio \/ BkPostTestAudio

SpecAudio == InitAudio /\ [][NextAudio]_vars

\* A translation the backend delivered
Delivered(entry) == entry.translation[1] = "str" /\ entry.translation # FailedMark

RECURSIVE DeliveredLatencies(_, _)
DeliveredLatencies(results, model) ==
    IF results = <<>> THEN <<>>
    ELSE (IF Delivered(Head(results)[model])
          THEN <<Head(results)[model].latency>> ELSE <<>>)
         \o DeliveredLatencies(Tail(results), model)

MeanOfDelivered(model) ==
    LET d == DeliveredLatencies(resp.body.results, model)
    IN  IF d = <<>> THEN 0 ELSE RoundMean(SumSeq(d), Len(d))

\* C29: avg_marian_latency and avg_google_latency of /test-audio are the
\* averages of the latencies of the translations that succeeded, and 0
\* for a backend that failed on every text.
C29_AverageOverSuccessful ==
    (req.endpoint = "/test-audio" /\ resp.code = 200) =>
        /\ resp.body.summary.avg_marian_latency = MeanOfDelivered("marian")
        /\ resp.body.summary.avg_google_latency = MeanOfDelivered("google")

\* The same for translation_server_backup.py alone
C29_OnBackup ==
    (req.server = "backup" /\ req.endpoint = "/test-audio"
        /\ resp.code = 200) =>
        /\ resp.body.summary.avg_marian_latency = MeanOfDelivered("marian")
        /\ resp.body.summary.avg_google_latency = MeanOfDelivered("google")

====
